---------------------------- MODULE Spec2Model ----------------------------
(***************************************************************************)
(* Verification model of openclaw-session-labeler: the label pipeline      *)
(* (sanitize, enforceMaxLength, heuristicLabel, generateLabel), the        *)
(* labels.json and sessions.json stores, and the session-labeler hook      *)
(* handler.                                                                *)
(*                                                                         *)
(* A JavaScript string is modelled as a sequence of one-character strings  *)
(* (one element per UTF-16 code unit), so that length, slicing, trimming   *)
(* and regular-expression replacement are computed, not assumed.           *)
(***************************************************************************)
EXTENDS Integers, Sequences, FiniteSets, TLC

(***************************************************************************)
(* Characters                                                              *)
(***************************************************************************)
\* U+2022, the bullet of the list-marker regex; one code unit.
Bullet ==
    "U+2022"

\* What \s, trim() and trimEnd() treat as white space (the part a label can contain).
Whitespace ==
    {" ", "\t", "\n", "\r"}

IsSpace(c) ==
    c \in Whitespace

\* src/src/enforce-length.ts: the compressor's stop-word set
STOP_WORDS ==
    { <<"a">>,
      <<"a", "n">>,
      <<"t", "h", "e">>,
      <<"a", "n", "d">>,
      <<"o", "f">>,
      <<"t", "o">>,
      <<"f", "o", "r">>,
      <<"w", "i", "t", "h">>,
      <<"o", "n">>,
      <<"i", "n">>,
      <<"i", "s">>,
      <<"a", "r", "e">>,
      <<"w", "a", "s">>,
      <<"b", "e">>,
      <<"b", "y">>,
      <<"a", "t">>,
      <<"o", "r">>,
      <<"i", "t", "s">> }

\* <<lower-case long word, replacement>>
ABBREVIATIONS ==
    { <<<<"c", "o", "n", "f", "i", "g", "u", "r", "a", "t", "i", "o", "n">>, <<"C", "o", "n", "f", "i", "g">>>>,
      <<<<"d", "o", "c", "u", "m", "e", "n", "t", "a", "t", "i", "o", "n">>, <<"D", "o", "c", "s">>>>,
      <<<<"p", "e", "r", "f", "o", "r", "m", "a", "n", "c", "e">>, <<"P", "e", "r", "f">>>>,
      <<<<"i", "m", "p", "l", "e", "m", "e", "n", "t", "a", "t", "i", "o", "n">>, <<"I", "m", "p", "l">>>>,
      <<<<"i", "n", "t", "e", "g", "r", "a", "t", "i", "o", "n">>, <<"I", "n", "t", "e", "g">>>>,
      <<<<"d", "e", "v", "e", "l", "o", "p", "m", "e", "n", "t">>, <<"D", "e", "v">>>>,
      <<<<"a", "p", "p", "l", "i", "c", "a", "t", "i", "o", "n">>, <<"A", "p", "p">>>>,
      <<<<"e", "n", "v", "i", "r", "o", "n", "m", "e", "n", "t">>, <<"E", "n", "v">>>>,
      <<<<"i", "n", "f", "r", "a", "s", "t", "r", "u", "c", "t", "u", "r", "e">>, <<"I", "n", "f", "r", "a">>>>,
      <<<<"a", "u", "t", "h", "e", "n", "t", "i", "c", "a", "t", "i", "o", "n">>, <<"A", "u", "t", "h">>>>,
      <<<<"a", "u", "t", "h", "o", "r", "i", "z", "a", "t", "i", "o", "n">>, <<"A", "u", "t", "h", "z">>>>,
      <<<<"m", "a", "n", "a", "g", "e", "m", "e", "n", "t">>, <<"M", "g", "m", "t">>>>,
      <<<<"d", "e", "p", "l", "o", "y", "m", "e", "n", "t">>, <<"D", "e", "p", "l", "o", "y">>>>,
      <<<<"r", "e", "p", "o", "s", "i", "t", "o", "r", "y">>, <<"R", "e", "p", "o">>>>,
      <<<<"n", "o", "t", "i", "f", "i", "c", "a", "t", "i", "o", "n">>, <<"N", "o", "t", "i", "f">>>>,
      <<<<"w", "o", "o", "c", "o", "m", "m", "e", "r", "c", "e">>, <<"W", "o", "o">>>>,
      <<<<"k", "u", "b", "e", "r", "n", "e", "t", "e", "s">>, <<"K", "8", "s">>>>,
      <<<<"d", "a", "t", "a", "b", "a", "s", "e">>, <<"D", "B">>>>,
      <<<<"j", "a", "v", "a", "s", "c", "r", "i", "p", "t">>, <<"J", "S">>>>,
      <<<<"t", "y", "p", "e", "s", "c", "r", "i", "p", "t">>, <<"T", "S">>>>,
      <<<<"r", "e", "f", "a", "c", "t", "o", "r", "i", "n", "g">>, <<"R", "e", "f", "a", "c", "t", "o", "r">>>>,
      <<<<"t", "r", "o", "u", "b", "l", "e", "s", "h", "o", "o", "t", "i", "n", "g">>, <<"D", "e", "b", "u", "g">>>>,
      <<<<"o", "p", "t", "i", "m", "i", "z", "a", "t", "i", "o", "n">>, <<"O", "p", "t", "i", "m">>>> }

UpperCase ==
    <<"A", "B", "C", "D", "E", "F", "G", "H", "I", "J", "K", "L", "M", "N", "O", "P", "Q", "R", "S", "T", "U", "V", "W", "X", "Y", "Z">>

LowerCase ==
    <<"a", "b", "c", "d", "e", "f", "g", "h", "i", "j", "k", "l", "m", "n", "o", "p", "q", "r", "s", "t", "u", "v", "w", "x", "y", "z">>

Digits ==
    {"0", "1", "2", "3", "4", "5", "6", "7", "8", "9"}


IsUpper(c) ==
    \E i \in 1..26 : UpperCase[i] = c

IsLower(c) ==
    \E i \in 1..26 : LowerCase[i] = c

\* [a-zA-Z0-9]
IsAlnum(c) ==
    IsUpper(c) \/ IsLower(c) \/ c \in Digits

ToLowerChar(c) ==
    IF IsUpper(c) THEN LowerCase[CHOOSE i \in 1..26 : UpperCase[i] = c] ELSE c

ToUpperChar(c) ==
    IF IsLower(c) THEN UpperCase[CHOOSE i \in 1..26 : LowerCase[i] = c] ELSE c

\* String.prototype.toLowerCase
ToLowerCase(s) ==
    [i \in 1..Len(s) |-> ToLowerChar(s[i])]

(***************************************************************************)
(* String primitives                                                       *)
(***************************************************************************)
RECURSIVE TrimStart(_)
TrimStart(s) ==
    IF Len(s) > 0 /\ IsSpace(s[1]) THEN TrimStart(Tail(s)) ELSE s

RECURSIVE TrimEnd(_)
TrimEnd(s) ==
    IF Len(s) > 0 /\ IsSpace(s[Len(s)])
    THEN TrimEnd(SubSeq(s, 1, Len(s) - 1))
    ELSE s

\* String.prototype.trim
Trim(s) ==
    TrimEnd(TrimStart(s))

\* a slice that cuts nothing
Slice0Whole(s, n) ==
    s

\* String.prototype.slice(0, n) for n >= 0
Slice0(s, n) ==
    SubSeq(s, 1, IF n < Len(s) THEN n ELSE Len(s))

\* Array.prototype.join
RECURSIVE Join(_, _)
Join(words, sep) ==
    IF Len(words) = 0 THEN <<>>
    ELSE IF Len(words) = 1 THEN words[1]
    ELSE words[1] \o sep \o Join(Tail(words), sep)

\* Array.prototype.filter, by a set of kept indices
RECURSIVE SelectIdx(_, _, _)
SelectIdx(seq, keep, i) ==
    IF i > Len(seq) THEN <<>>
    ELSE (IF i \in keep THEN <<seq[i]>> ELSE <<>>) \o SelectIdx(seq, keep, i + 1)

\* split(/\r?\n/)
RECURSIVE SplitLines(_)
SplitLines(s) ==
    IF \E i \in 1..Len(s) : s[i] = "\n"
    THEN LET i == CHOOSE k \in 1..Len(s) :
                      s[k] = "\n" /\ \A j \in 1..(k - 1) : s[j] # "\n"
             e == IF i > 1 /\ s[i - 1] = "\r" THEN i - 2 ELSE i - 1
         IN  <<SubSeq(s, 1, e)>> \o SplitLines(SubSeq(s, i + 1, Len(s)))
    ELSE <<s>>

\* split(/\s+/): a leading or trailing run of white space yields an empty token
RECURSIVE SplitWs(_)
SplitWs(s) ==
    IF \E i \in 1..Len(s) : IsSpace(s[i])
    THEN LET i == CHOOSE k \in 1..Len(s) :
                      IsSpace(s[k]) /\ \A j \in 1..(k - 1) : ~IsSpace(s[j])
         IN  <<SubSeq(s, 1, i - 1)>> \o SplitWs(TrimStart(SubSeq(s, i, Len(s))))
    ELSE <<s>>

(***************************************************************************)
(* sanitize (src/src/types.ts, the sanitize.ts part)                       *)
(***************************************************************************)
\* raw.split(/\r?\n/).find((line) => line.trim() !== "") ?? ""
FirstNonBlankLine(raw) ==
    LET lines == SplitLines(raw)
        good  == {i \in 1..Len(lines) : Len(Trim(lines[i])) > 0}
    IN  IF good = {} THEN <<>>
        ELSE lines[CHOOSE i \in good : \A j \in good : i <= j]

\* label.replace(/^[-*•]\s+/, "")
StripListMarker(s) ==
    IF Len(s) >= 2 /\ s[1] \in {"-", "*", Bullet} /\ IsSpace(s[2])
    THEN TrimStart(Tail(s))
    ELSE s

\* label.replace(/\t/g, " ")
TabsToSpaces(s) ==
    [i \in 1..Len(s) |-> IF s[i] = "\t" THEN " " ELSE s[i]]

\* label.replace(/ {2,}/g, " ")
RECURSIVE CollapseSpaces(_)
CollapseSpaces(s) ==
    IF Len(s) < 2 THEN s
    ELSE IF s[1] = " " /\ s[2] = " " THEN CollapseSpaces(Tail(s))
    ELSE <<s[1]>> \o CollapseSpaces(Tail(s))

\* U+0060, the backtick; one code unit.
Backtick ==
    "U+0060"

\* the character class of double quote, single quote and backtick
QuoteChars ==
    {"\"", "'", Backtick}

RECURSIVE DropLeading(_, _, _)
\* drop at most n leading characters that are in set cs
DropLeading(s, cs, n) ==
    IF n > 0 /\ Len(s) > 0 /\ s[1] \in cs
    THEN DropLeading(Tail(s), cs, n - 1)
    ELSE s

RECURSIVE DropTrailing(_, _, _)
DropTrailing(s, cs, n) ==
    IF n > 0 /\ Len(s) > 0 /\ s[Len(s)] \in cs
    THEN DropTrailing(SubSeq(s, 1, Len(s) - 1), cs, n - 1)
    ELSE s

\* label.replace(/^[quotes]+|[quotes]+$/g, ""): every leading and every trailing quote
StripQuotes(s) ==
    DropTrailing(DropLeading(s, QuoteChars, Len(s)), QuoteChars, Len(s))

\* label.replace(/^\*{1,2}|\*{1,2}$/g, ""): up to two asterisks at each end
StripBold(s) ==
    DropTrailing(DropLeading(s, {"*"}, 2), {"*"}, 2)

TrailingPunct ==
    {".", ",", ";", ":", "!", "?"}

\* a replace that takes the whole trailing run of punctuation
StripAllTrailingPunct(s) ==
    DropTrailing(s, TrailingPunct, Len(s))

\* label.replace(/[.,;:!?]$/, "")
StripTrailingPunct(s) ==
    DropTrailing(s, TrailingPunct, 1)

sanitize(raw) ==
    IF Len(raw) = 0 THEN <<>>
    ELSE LET l2 == Trim(FirstNonBlankLine(raw))
         IN  IF Len(l2) = 0 THEN <<>>
             ELSE LET l3 == StripListMarker(l2)
                      l4 == CollapseSpaces(TabsToSpaces(l3))
                      l5 == Trim(StripBold(StripQuotes(l4)))
                      l6 == StripTrailingPunct(l5)
                  IN  Trim(l6)

(***************************************************************************)
(* enforceMaxLength (src/src/enforce-length.ts)                            *)
(***************************************************************************)
IsStopWord(w) ==
    ToLowerCase(w) \in STOP_WORDS

\* words.filter((w) => !STOP_WORDS.has(w.toLowerCase())), kept only if non-empty
RemoveStopWords(words) ==
    LET withoutStops == SelectIdx(words, {i \in 1..Len(words) : ~IsStopWord(words[i])}, 1)
    IN  IF Len(withoutStops) > 0 THEN withoutStops ELSE words

Abbreviate(w) ==
    LET lower == ToLowerCase(w)
    IN  IF \E p \in ABBREVIATIONS : p[1] = lower
        THEN (CHOOSE p \in ABBREVIATIONS : p[1] = lower)[2]
        ELSE w

Min(a, b) ==
    IF a < b THEN a ELSE b

\* position of word i after the stable sort by descending length
LengthRank(words, i) ==
    Cardinality({j \in 1..Len(words) :
                    \/ Len(words[j]) > Len(words[i])
                    \/ (Len(words[j]) = Len(words[i]) /\ j < i)})

\* a selection that stays in the order of the sort by length
KeepLongestByLength(words, keep) ==
    [r \in 1..Min(keep, Len(words)) |->
        words[CHOOSE i \in 1..Len(words) : LengthRank(words, i) = r - 1]]

\* indexed.slice(0, keep).sort((a, b) => a.index - b.index).map((e) => e.word)
KeepLongest(words, keep) ==
    SelectIdx(words, {i \in 1..Len(words) : LengthRank(words, i) < keep}, 1)

\* the for loop of step 3: keep = min(4, n) down to 1, first selection that fits
RECURSIVE InformativeWords(_, _, _)
InformativeWords(words, keep, maxChars) ==
    IF keep < 1 THEN <<"none">>
    ELSE LET shortened == Join(KeepLongest(words, keep), <<" ">>)
         IN  IF Len(shortened) <= maxChars THEN <<"fits", shortened>>
             ELSE InformativeWords(words, keep - 1, maxChars)

\* an enforceMaxLength that only truncates and trims
enforceMaxLengthTruncateOnly(label, maxChars) ==
    TrimEnd(Slice0(label, maxChars))

enforceMaxLength(label, maxChars) ==
    IF Len(label) = 0 THEN <<>>
    ELSE IF Len(label) <= maxChars THEN label
    ELSE LET words1 == RemoveStopWords(SplitWs(label))
             cand1  == Join(words1, <<" ">>)
         IN  IF Len(cand1) <= maxChars THEN cand1
             ELSE LET words2 == [i \in 1..Len(words1) |-> Abbreviate(words1[i])]
                      cand2  == Join(words2, <<" ">>)
                  IN  IF Len(cand2) <= maxChars THEN cand2
                      ELSE LET r == InformativeWords(words2, Min(4, Len(words2)), maxChars)
                           IN  IF r[1] = "fits" THEN r[2]
                               ELSE TrimEnd(Slice0(cand2, maxChars))

\* the return statement of enforceMaxLength that produces the result: line 62
\* (asis), 72 (stops), 83 (abbrev), 96 (informative) or 100 (truncate)
EnforceStage(label, maxChars) ==
    IF Len(label) = 0 \/ Len(label) <= maxChars THEN "asis"
    ELSE LET words1 == RemoveStopWords(SplitWs(label))
         IN  IF Len(Join(words1, <<" ">>)) <= maxChars THEN "stops"
             ELSE LET words2 == [i \in 1..Len(words1) |-> Abbreviate(words1[i])]
                  IN  IF Len(Join(words2, <<" ">>)) <= maxChars THEN "abbrev"
                      ELSE IF InformativeWords(words2, Min(4, Len(words2)), maxChars)[1] = "fits"
                           THEN "informative"
                           ELSE "truncate"

(***************************************************************************)
(* heuristicLabel and generateLabel (labeler.ts, carried in                *)
(* src/create_dist.sh lines 42-121)                                        *)
(***************************************************************************)
FALLBACK_LABEL ==
    <<"G", "e", "n", "e", "r", "a", "l">>

\* The shared list of stop-words.ts that labeler.ts imports: the compressor's
\* words plus conversational filler.
FILLER_WORDS ==
    { <<"h", "e", "l", "p">>,
      <<"n", "e", "e", "d">>,
      <<"p", "l", "e", "a", "s", "e">> }

LABELER_STOP_WORDS ==
    STOP_WORDS \cup FILLER_WORDS

\* w.replace(/[^a-zA-Z0-9]/g, "")
StripNonAlnum(w) ==
    SelectIdx(w, {i \in 1..Len(w) : IsAlnum(w[i])}, 1)

\* .split(/\s+/).map(strip).filter((w) => w.length > 3 && !STOP_WORDS.has(lower))
HeuristicWords(requests) ==
    LET toks  == SplitWs(Join(requests, <<" ">>))
        clean == [i \in 1..Len(toks) |-> StripNonAlnum(toks[i])]
    IN  SelectIdx(clean,
                  {i \in 1..Len(clean) :
                      Len(clean[i]) > 3 /\ ToLowerCase(clean[i]) \notin LABELER_STOP_WORDS},
                  1)

\* keys of the freq Map, in insertion order (first occurrence)
FreqKeys(words) ==
    LET lower == [i \in 1..Len(words) |-> ToLowerCase(words[i])]
    IN  SelectIdx(lower,
                  {i \in 1..Len(lower) : \A j \in 1..(i - 1) : lower[j] # lower[i]},
                  1)

FreqOf(words, key) ==
    Cardinality({i \in 1..Len(words) : ToLowerCase(words[i]) = key})

\* position of key i after the stable sort by frequency desc, then length desc
FreqRank(words, keys, i) ==
    Cardinality({j \in 1..Len(keys) :
        \/ FreqOf(words, keys[j]) > FreqOf(words, keys[i])
        \/ /\ FreqOf(words, keys[j]) = FreqOf(words, keys[i])
           /\ \/ Len(keys[j]) > Len(keys[i])
              \/ (Len(keys[j]) = Len(keys[i]) /\ j < i)})

\* w.charAt(0).toUpperCase() + w.slice(1)
TitleCase(w) ==
    IF Len(w) = 0 THEN w ELSE <<ToUpperChar(w[1])>> \o Tail(w)

\* ranked.slice(0, 3).map(title-case), in rank order
TopWords(requests) ==
    LET words == HeuristicWords(requests)
        keys  == FreqKeys(words)
        n     == Min(3, Len(keys))
    IN  [k \in 1..n |->
            TitleCase(keys[CHOOSE i \in 1..Len(keys) : FreqRank(words, keys, i) = k - 1])]

\* a heuristicLabel that passes the fallback through enforceMaxLength as well
heuristicLabelEnforcesFallback(requests, max_chars) ==
    LET label == Join(TopWords(requests), <<" ">>)
    IN  enforceMaxLength(IF Len(label) = 0 THEN FALLBACK_LABEL ELSE label, max_chars)

heuristicLabel(requests, max_chars) ==
    LET label == Join(TopWords(requests), <<" ">>)
    IN  IF Len(label) = 0 THEN FALLBACK_LABEL
        ELSE LET e == enforceMaxLength(label, max_chars)
             IN  IF Len(e) = 0 THEN FALLBACK_LABEL ELSE e

\* What llm.complete does: it rejects, or it resolves with a text.
LlmThrows ==
    [kind |-> "throw", raw |-> <<>>]

LlmReturns(raw) ==
    [kind |-> "text", raw |-> raw]

\* a generateLabel that answers every failure with the literal fallback
generateLabelLiteralFallback(outcome, requests, max_chars) ==
    IF outcome.kind = "throw" THEN FALLBACK_LABEL
    ELSE LET label == enforceMaxLength(sanitize(outcome.raw), max_chars)
         IN  IF Len(label) = 0 THEN FALLBACK_LABEL
             ELSE label

\* the value generateLabel resolves with, given the outcome of llm.complete
generateLabel(outcome, requests, max_chars) ==
    IF outcome.kind = "throw" THEN heuristicLabel(requests, max_chars)
    ELSE LET label == enforceMaxLength(sanitize(outcome.raw), max_chars)
         IN  IF Len(label) = 0 THEN heuristicLabel(requests, max_chars)
             ELSE label

\* a generateLabel that computes the heuristic label before it looks at
\* what complete() did
HeuristicCallsEager(outcome, max_chars) ==
    1

\* how often generateLabel calls heuristicLabel: in the catch, or when the
\* sanitized and shortened text is empty
HeuristicCalls(outcome, max_chars) ==
    IF outcome.kind = "throw" THEN 1
    ELSE IF Len(enforceMaxLength(sanitize(outcome.raw), max_chars)) = 0 THEN 1
    ELSE 0

(***************************************************************************)
(* Bounds of the model                                                     *)
(***************************************************************************)
\* concurrent callers (hook invocations, direct store calls)
NumProcs ==
    2

\* hook invocations and store calls started in one behaviour
MaxCalls ==
    2

Procs ==
    1..NumProcs

(***************************************************************************)
(* Label records and the two store files                                   *)
(***************************************************************************)
\* string literals used as label texts and transcript contents
TxtAlpha ==
    <<"A", "l", "p", "h", "a">>

TxtBeta ==
    <<"B", "e", "t", "a">>

TxtMine ==
    <<"M", "i", "n", "e">>

TxtTaxFix ==
    <<"T", "a", "x", " ", "F", "i", "x">>

\* SessionLabel (src/src/types.ts); label_updated_at is a wall-clock stamp and is left out
SessionLabel(text, source, turn) ==
    [label |-> text, label_source |-> source, label_turn |-> turn, label_version |-> "1.0"]

\* ids of the sessions that have a transcript <id>.jsonl, newest file first
SessionIds ==
    <<"s2", "s1">>

IdSet ==
    {SessionIds[i] : i \in 1..Len(SessionIds)}

\* keys of sessions.json
SessionKeys ==
    {"agent:main:main", "agent:main:alt"}

\* an absent optional string
None ==
    ""

\* keys of labels.json: session ids (hook) and the keys of direct callers
LabelKeys ==
    IdSet \cup {"session:a", "session:b"}

\* a JSON object is a function with a finite domain; {} is the empty function
EmptyMap ==
    [k \in {} |-> None]

\* an assignment that keeps no other key
PutAlone(map, key, value) ==
    [k \in {key} |-> value]

\* obj[key] = value
Put(map, key, value) ==
    [k \in (DOMAIN map) \cup {key} |-> IF k = key THEN value ELSE map[k]]

\* a file: absent, unparseable (truncated or half written), or a JSON object
FileAbsent ==
    [st |-> "absent", map |-> EmptyMap]

FilePartial ==
    [st |-> "partial", map |-> EmptyMap]

FileOk(map) ==
    [st |-> "ok", map |-> map]

\* readLabels / readSessionsStore: readFile + JSON.parse, {} when either throws
readLabels(file) ==
    IF file.st = "ok" THEN file.map ELSE EmptyMap

readSessionsStore(file) ==
    IF file.st = "ok" THEN file.map ELSE EmptyMap

\* an entry of sessions.json: the gateway's fields plus the label fields
SessionEntry(sessionId, label, source, turn) ==
    [sessionId |-> sessionId, updatedAt |-> 1, label |-> label,
     label_source |-> source, label_turn |-> turn, label_version |-> "1.0"]

\* an entry the gateway wrote and nobody labelled: label fields are missing
UnlabelledEntry(sessionId) ==
    [sessionId |-> sessionId, updatedAt |-> 1]

HasField(entry, f) ==
    f \in DOMAIN entry

\* An optional value is a sequence: <<>> for undefined, <<v>> for v.
\* getLabelFromSessionStore: undefined unless entry.label is a non-empty string
getLabelFromSessionStore(store, sessionKey) ==
    IF sessionKey \notin DOMAIN store THEN <<>>
    ELSE LET entry == store[sessionKey]
         IN  IF ~HasField(entry, "label") \/ Len(entry.label) = 0 THEN <<>>
             ELSE << SessionLabel(entry.label,
                                  IF HasField(entry, "label_source") THEN entry.label_source ELSE "auto",
                                  IF HasField(entry, "label_turn") THEN entry.label_turn ELSE 0) >>

\* getLabel: labels[sessionKey] of the mapping readLabels returned
getLabel(labels, sessionKey) ==
    IF sessionKey \in DOMAIN labels THEN <<labels[sessionKey]>> ELSE <<>>

\* an assignment of the label fields that does not spread the entry
WithLabelOnly(entry, label) ==
    [f \in {"label", "label_source", "label_turn", "label_version"} |-> label[f]]

\* { ...entry, label, label_source, label_turn, label_version }
WithLabel(entry, label) ==
    [f \in (DOMAIN entry) \cup {"label", "label_source", "label_turn", "label_version"} |->
        IF f \in DOMAIN label THEN label[f] ELSE entry[f]]

\* a loop that labels every entry of the store
LabelEveryEntry(store, sessionId, label) ==
    [k \in DOMAIN store |-> WithLabel(store[k], label)]

\* the loop of setLabelInSessionStoreBySessionId over Object.keys(store)
LabelBySessionId(store, sessionId, label) ==
    [k \in DOMAIN store |->
        IF HasField(store[k], "sessionId") /\ store[k].sessionId = sessionId
        THEN WithLabel(store[k], label)
        ELSE store[k]]

MatchesSessionId(store, sessionId) ==
    {k \in DOMAIN store : HasField(store[k], "sessionId") /\ store[k].sessionId = sessionId}

(***************************************************************************)
(* Transcripts (src/src/transcript.ts)                                     *)
(***************************************************************************)
Line(type, role, content) ==
    [type |-> type, role |-> role, content |-> content]

\* a line JSON.parse rejects, or a blank line
BadLine ==
    [type |-> "unparseable", role |-> None, content |-> <<>>]

Msg1 ==
    <<"F", "i", "x", " ", "c", "h", "e", "c", "k", "o", "u", "t", " ", "t", "a", "x", "e", "s">>

Msg2 ==
    <<"W", "o", "o", "C", "o", "m", "m", "e", "r", "c", "e", " ", "s", "e", "t", "u", "p">>

Msg3 ==
    <<"A", "d", "d", " ", "g", "a", "t", "e", "w", "a", "y", " ", "n", "o", "t", "e", "s">>

Msg4 ==
    <<"h", "i">>

Reply ==
    <<"o", "k">>

\* the content of <id>.jsonl, one element per line; s1 has four user messages, s2 two
Transcript(id) ==
    IF id = "s1"
    THEN << Line("session", None, <<>>),
            Line("message", "user", Msg1), Line("message", "assistant", Reply),
            BadLine,
            Line("message", "user", Msg2), Line("message", "user", <<>>),
            Line("custom_message", "user", Msg4),
            Line("message", "user", Msg3), Line("message", "user", Msg4) >>
    ELSE << Line("session", None, <<>>),
            Line("message", "user", Msg4), Line("message", "assistant", Reply),
            Line("message", "user", Msg1) >>

\* a line filter that takes the messages of every role
processLineAnyRole(line, messages) ==
    IF line.type # "message" THEN messages
    ELSE IF Len(line.content) > 0 THEN Append(messages, line.content)
    ELSE messages

\* processLineForUserMessage: what one line appends to messages
processLineForUserMessage(line, messages) ==
    IF line.type # "message" \/ line.role # "user" THEN messages
    ELSE IF Len(line.content) > 0 THEN Append(messages, line.content)
    ELSE messages

\* the for-await loop of extractUserMessagesFromFile, from line i on
RECURSIVE ExtractFrom(_, _, _, _)
ExtractFrom(lines, i, limit, messages) ==
    IF i > Len(lines) \/ Len(messages) >= limit THEN messages
    ELSE ExtractFrom(lines, i + 1, limit, processLineForUserMessage(lines[i], messages))

extractUserMessagesFromFile(id, limit) ==
    ExtractFrom(Transcript(id), 1, limit, <<>>)

(***************************************************************************)
(* Hook events and configuration (hooks/session-labeler/handler.ts)        *)
(***************************************************************************)
\* DEFAULT_CONFIG (src/unnamed/part_005 lines 68-76)
DEFAULT_CONFIG ==
    [triggerAfterRequests |-> 3, maxMessagesForLabel |-> 5, maxLabelChars |-> 28,
     relabel |-> FALSE, persistenceMode |-> "session_json",
     allowSidecarFallback |-> TRUE, triggerActions |-> {"new", "reset", "stop"}]

\* resolveConfig: the fields the hook entry sets override the defaults
resolveConfig(entry) ==
    [f \in DOMAIN DEFAULT_CONFIG |-> IF f \in DOMAIN entry THEN entry[f] ELSE DEFAULT_CONFIG[f]]

\* hooks.internal.entries["session-labeler"] as the model varies it
ConfigEntries ==
    { [relabel |-> r, allowSidecarFallback |-> a] : r \in BOOLEAN, a \in BOOLEAN }
    \cup { [relabel |-> r, persistenceMode |-> "labels_json"] : r \in BOOLEAN }
    \cup { [persistenceMode |-> "sidecar_labels_json"], [triggerAfterRequests |-> 2],
           [triggerActions |-> {"stop"}], [maxMessagesForLabel |-> 2] }

\* an id the event can carry for which no transcript file exists
GoneId ==
    "gone"

HookEvent(type, action, sessionKey, sessionId, workspaceDir) ==
    [type |-> type, action |-> action, sessionKey |-> sessionKey,
     sessionId |-> sessionId, workspaceDir |-> workspaceDir]

\* HookEvent: type, action, sessionKey and the context fields path resolution
\* reads.  The shapes: the event names the ending session by id, by key only,
\* by neither, by an id without a transcript; with and without a session key
\* and a workspace; an event of another action and one of another type.
HookEvents ==
    { HookEvent("command", "new", k, id, TRUE) :
          k \in {"agent:main:main", None}, id \in {"s1", None, GoneId} }
    \cup { HookEvent("command", "stop", "agent:main:main", "s2", FALSE),
            HookEvent("command", "new", None, "s1", FALSE),
            HookEvent("command", "bootstrap", "agent:main:main", "s1", TRUE),
            HookEvent("agent", "new", "agent:main:main", "s1", TRUE) }

\* resolveSessionsDir: workspaceDir, else the agent:<id> prefix of the session key
resolveSessionsDir(event) ==
    IF event.workspaceDir THEN "sessions"
    ELSE IF event.sessionKey # None THEN "sessions"
    ELSE None

\* a persistLabel and getExistingLabel that treat every mode as session_json
LabelsOnlyNever(config) ==
    FALSE

\* labelsOnly: persistenceMode is labels_json or its alias sidecar_labels_json
LabelsOnly(config) ==
    config.persistenceMode \in {"labels_json", "sidecar_labels_json"}

\* resolveTranscriptPath, as the id of the transcript it returns (None for null):
\* context.sessionId when <id>.jsonl exists, else the newest transcript that is
\* not the one sessions.json[sessionKey] points at, else the newest transcript.
resolveTranscriptPath(event, file) ==
    IF event.sessionId \in IdSet THEN event.sessionId
    ELSE IF file.st # "ok" THEN None
    ELSE LET store     == file.map
             currentId == IF /\ event.sessionKey # None
                             /\ event.sessionKey \in DOMAIN store
                             /\ HasField(store[event.sessionKey], "sessionId")
                          THEN store[event.sessionKey].sessionId
                          ELSE None
             others    == {i \in 1..Len(SessionIds) : SessionIds[i] # currentId}
         IN  IF others # {}
             THEN SessionIds[CHOOSE i \in others : \A j \in others : i <= j]
             ELSE IF Len(SessionIds) > 0 THEN SessionIds[1] ELSE None

\* getExistingLabel: sessions.json is consulted in session_json mode only
getExistingLabel(config, file, sessionKey) ==
    IF LabelsOnly(config) THEN <<>>
    ELSE getLabelFromSessionStore(readSessionsStore(file), sessionKey)

\* what llm.complete can do in a hook invocation
HookLlmOutcomes ==
    {LlmThrows, LlmReturns(TxtTaxFix)}

\* a handler whose catch rethrows
HandlerCatchRethrows(lsOutcome) ==
    IF lsOutcome = "threw" THEN "rejected" ELSE "resolved"

\* the catch of handler: the error is logged and the promise resolves
HandlerCatch(lsOutcome) ==
    "resolved"

\* a persistLabel that absorbs the failure whatever allowSidecarFallback says
PersistCatchAbsorbs(cfg) ==
    "warn"

\* a persistLabel that rethrows whatever allowSidecarFallback says
PersistCatchRethrows(cfg) ==
    "rethrow"

\* the catch of persistLabel around the sessions.json update
PersistCatch(cfg) ==
    IF ~cfg.allowSidecarFallback THEN "rethrow" ELSE "warn"

(***************************************************************************)
(* State                                                                   *)
(***************************************************************************)
VARIABLES
    labelsFile,     \* content of <sessionsDir>/labels.json
    sessionsFile,   \* content of <sessionsDir>/sessions.json
    writeQueue,     \* the module-level promise chain of session-json-store.ts
    config,         \* the SessionLabelerConfig the gateway's cfg resolves to
    event,          \* the HookEvent the gateway delivers for the ending session
    proc,           \* per caller: position and locals of its async call
    calls,          \* calls started so far
    before,         \* both files as they were when the latest call started
    prior,          \* the call that completed before the latest one started
    committed,      \* every complete content labels.json has had
    observed,       \* what the latest readLabels of a reader returned
    gl,             \* the generateLabel call: position, inputs, result
    net,            \* the LlmClient of createLlmClient: request and timer
    otherSessionsFile, \* content of sessions.json in a second sessions directory
    textCall,       \* a direct call of a label text function: input and result
    manualSet,      \* the store entries an external actor has labelled by hand
    tmpFiles,       \* the temp files of writeSessionsStore, by name
    extract         \* a run of extractUserMessagesFromFile: position and locals

vars ==
    <<labelsFile, sessionsFile, writeQueue, config, event, proc, calls, before,
      prior, committed, observed, gl, net, otherSessionsFile, textCall, manualSet,
      tmpFiles, extract>>

\* a temp file name that is the same for every write
TmpNameFixed(seq) ==
    1

\* tmpPath = path + '.' + randomUUID() + '.tmp': a fresh name for every write
TmpName(seq) ==
    seq

\* the names randomUUID can give a temp file: one per write
TmpNames ==
    1..MaxCalls

\* no temp file exists
NoTmpFiles ==
    [n \in TmpNames |-> FileAbsent]

\* no transcript is being read
IdleExtract ==
    [pc |-> "idle", lines |-> <<>>, limit |-> 0, threshold |-> 0, taken |-> 0,
     parsed |-> 0, messages |-> <<>>, requests |-> <<>>, fed |-> FALSE]

\* no generateLabel call, no request
IdleLabelCall ==
    [pc |-> "idle", requests |-> <<>>, max_chars |-> 0, completeCalls |-> 0,
     heuristicCalls |-> 0,
     outcome |-> <<>>, result |-> <<>>]

\* no text function has been called
IdleTextCall ==
    [pc |-> "idle", fn |-> "none", text |-> <<>>, requests |-> <<>>, maxChars |-> 0,
     out |-> <<>>]

IdleClient ==
    [pc |-> "idle", timer |-> "unset", apiKey |-> FALSE, ok |-> FALSE]

IdleProc ==
    [pc |-> "idle", kind |-> "none", sessionKey |-> None,
     endingSessionId |-> None, messages |-> <<>>, key |-> None, label |-> <<>>,
     data |-> EmptyMap, updated |-> FALSE,
     lsOutcome |-> "none", hOutcome |-> "none", errorLogged |-> FALSE,
     labeledLogged |-> FALSE, labelsWriteFailed |-> FALSE,
     sessionsWriteFailed |-> FALSE, llmCalled |-> FALSE, faulted |-> FALSE,
     skip |-> "none", dir |-> None, op |-> "none", seq |-> 0]

Running(p) ==
    proc[p].pc \notin {"idle", "done"}

\* a call takes the first free slot
FreeSlot(p) ==
    /\ ~Running(p)
    /\ \A q \in Procs : q < p => Running(q)

SetProc(p, rec) ==
    [proc EXCEPT ![p] = rec]

\* labelSession returned (a skip or a success): handler resolves
Returned(rec) ==
    [rec EXCEPT !.pc = "done", !.lsOutcome = "returned", !.hOutcome = "resolved",
                !.messages = <<>>, !.data = EmptyMap]

\* labelSession threw: the catch of handler settles the promise
Threw(rec) ==
    [rec EXCEPT !.pc = "done", !.lsOutcome = "threw",
                !.hOutcome = HandlerCatch("threw"), !.errorLogged = TRUE,
                !.messages = <<>>, !.data = EmptyMap]

\* labelSession logs why it skips and returns (handler.ts lines 98, 105, 116,
\* 123, 135, 139); handler returns without a log on an event that is no trigger
Skipped(rec, why) ==
    [Returned(rec) EXCEPT !.skip = why]

\* persistLabel returned: labelSession logs 'Labeled ...' and returns
Persisted(rec) ==
    [Returned(rec) EXCEPT !.labeledLogged = TRUE]

(***************************************************************************)
(* setLabel (src/src/labels-store.ts), one action per await                *)
(***************************************************************************)
\* what follows 'await setLabel(...)' in the caller
AfterSetLabel(p, rec) ==
    IF rec.kind = "store" THEN
        /\ proc' = SetProc(p, [rec EXCEPT !.pc = "done", !.hOutcome = "resolved"])
        /\ UNCHANGED writeQueue
    ELSE IF LabelsOnly(config) THEN
        /\ proc' = SetProc(p, Persisted(rec))
        /\ UNCHANGED writeQueue
    ELSE \* setLabelInSessionStoreBySessionId: writeQueue = writeQueue.then(...)
        /\ proc' = SetProc(p, [rec EXCEPT !.pc = "q_wait", !.updated = FALSE])
        /\ writeQueue' = [writeQueue EXCEPT !.chain = Append(@, p)]

\* setLabel or writeLabels rejects
SetLabelThrows(p, rec) ==
    IF rec.kind = "store"
    THEN proc' = SetProc(p, [rec EXCEPT !.pc = "done", !.hOutcome = "rejected"])
    ELSE proc' = SetProc(p, Threw(rec))

\* const labels = await readLabels(labelsPath); labels[sessionKey] = label
SL_Read(p) ==
    /\ proc[p].pc = "sl_read"
    /\ proc' = SetProc(p, [proc[p] EXCEPT
                    !.pc = "sl_open",
                    !.data = Put(readLabels(labelsFile), proc[p].key, proc[p].label[1])])
    /\ UNCHANGED <<extract, tmpFiles, manualSet, textCall, otherSessionsFile, labelsFile, sessionsFile, writeQueue, config, event, calls, before, prior,
                   committed, observed, gl, net>>

\* writeLabels: mkdir, then writeFile opens labels.json with flag 'w' (truncates it)
SL_Open(p) ==
    /\ proc[p].pc = "sl_open"
    /\ \/ /\ labelsFile' = FilePartial
          /\ proc' = SetProc(p, [proc[p] EXCEPT !.pc = "sl_data"])
       \/ \* mkdir or open fails
          /\ SetLabelThrows(p, [proc[p] EXCEPT !.labelsWriteFailed = TRUE, !.faulted = TRUE])
          /\ UNCHANGED labelsFile
    /\ UNCHANGED <<extract, tmpFiles, manualSet, textCall, otherSessionsFile, sessionsFile, writeQueue, config, event, calls, before, prior, committed,
                   observed, gl, net>>

\* writeFile writes the text at offset 0 and closes.  Over the text another
\* writer put there since the truncation the result is this text or, when
\* this text is the shorter one, a mix of the two.
SL_Data(p) ==
    /\ proc[p].pc = "sl_data"
    /\ \/ /\ labelsFile' = FileOk(proc[p].data)
          /\ committed' = committed \cup {proc[p].data}
          /\ AfterSetLabel(p, proc[p])
       \/ /\ labelsFile.st = "ok"
          /\ labelsFile.map # proc[p].data
          /\ labelsFile' = FilePartial
          /\ AfterSetLabel(p, proc[p])
          /\ UNCHANGED committed
       \/ \* the write fails
          /\ SetLabelThrows(p, [proc[p] EXCEPT !.labelsWriteFailed = TRUE, !.faulted = TRUE])
          /\ UNCHANGED <<labelsFile, writeQueue, committed>>
    /\ UNCHANGED <<extract, tmpFiles, manualSet, textCall, otherSessionsFile, sessionsFile, config, event, calls, before, prior, observed, gl, net>>

(***************************************************************************)
(* handler, labelSession and persistLabel                                  *)
(* (hooks/session-labeler/handler.ts), one action per await                *)
(***************************************************************************)
Snapshot ==
    [labels |-> labelsFile, sessions |-> sessionsFile]

\* the call that has just completed, if any
LastCompleted ==
    IF \E q \in Procs : proc[q].pc = "done" /\ proc[q].kind = "hook"
    THEN LET q == CHOOSE r \in Procs : proc[r].pc = "done" /\ proc[r].kind = "hook"
         IN  <<[lsOutcome |-> proc[q].lsOutcome, faulted |-> proc[q].faulted]>>
    ELSE <<>>

\* a handler that takes every command event for a trigger
IsTriggerAnyCommand(ev, cfg) ==
    ev.type = "command"

\* the trigger test of handler: a command event whose action is configured
IsTrigger(ev, cfg) ==
    ev.type = "command" /\ ev.action \in cfg.triggerActions

\* handler(event) up to the first await: resolveConfig, the trigger test,
\* resolveSessionsDir, and the call of resolveTranscriptPath
HookStart(p) ==
    /\ calls < MaxCalls
    /\ FreeSlot(p)
    /\ calls' = calls + 1
    /\ before' = Snapshot
    /\ prior' = LastCompleted
    /\ LET rec == [IdleProc EXCEPT !.kind = "hook", !.sessionKey = event.sessionKey]
       IN  IF ~IsTrigger(event, config)
           THEN proc' = SetProc(p, [rec EXCEPT !.pc = "done", !.hOutcome = "resolved",
                                               !.skip = "not_trigger"])
           ELSE IF resolveSessionsDir(event) = None
           THEN proc' = SetProc(p, Skipped(rec, "no_sessions_dir"))
           ELSE proc' = SetProc(p, [rec EXCEPT !.pc = "resolve_path"])
    /\ UNCHANGED <<extract, tmpFiles, manualSet, textCall, otherSessionsFile, labelsFile, sessionsFile, writeQueue, config, event, committed,
                   observed, gl, net>>

\* the gateway delivers the event while no earlier invocation is running
HookInvoke(p) ==
    /\ \A q \in Procs : ~Running(q)
    /\ HookStart(p)

\* a labelSession without step 3
AfterResolveNoCheck(rec) ==
    "extract"

\* a labelSession that runs step 3 whatever relabel says
AfterResolveAlwaysCheck(rec) ==
    IF rec.sessionKey # None THEN "check_key" ELSE "check_id"

\* the pc after the transcript path is known: step 3 unless relabel
AfterResolve(rec) ==
    IF config.relabel THEN "extract"
    ELSE IF rec.sessionKey # None THEN "check_key"
    ELSE "check_id"

\* const transcriptPath = await resolveTranscriptPath(event, sessionsDir)
ResolveTranscriptPath(p) ==
    /\ proc[p].pc = "resolve_path"
    /\ LET id == resolveTranscriptPath(event, sessionsFile)
       IN  \/ IF id = None
              THEN proc' = SetProc(p, Skipped(proc[p], "no_transcript"))
              ELSE proc' = SetProc(p, [proc[p] EXCEPT !.endingSessionId = id,
                                                      !.pc = AfterResolve(proc[p])])
           \/ \* readdir(sessionsDir) in the catch of stat throws
              /\ event.sessionId = GoneId
              /\ proc' = SetProc(p, Threw([proc[p] EXCEPT !.faulted = TRUE,
                                                          !.skip = "unreadable_dir"]))
    /\ UNCHANGED <<extract, tmpFiles, manualSet, textCall, otherSessionsFile, labelsFile, sessionsFile, writeQueue, config, event, calls, before, prior,
                   committed, observed, gl, net>>

\* const existingByKey = await getExistingLabel(config, sessionsDir, sessionKey)
CheckExistingByKey(p) ==
    /\ proc[p].pc = "check_key"
    /\ IF Len(getExistingLabel(config, sessionsFile, proc[p].sessionKey)) > 0
       THEN proc' = SetProc(p, Skipped(proc[p], "labeled_by_key"))
       ELSE proc' = SetProc(p, [proc[p] EXCEPT !.pc = "check_id"])
    /\ UNCHANGED <<extract, tmpFiles, manualSet, textCall, otherSessionsFile, labelsFile, sessionsFile, writeQueue, config, event, calls, before, prior,
                   committed, observed, gl, net>>

\* const existingById = await getLabel(labelsPath, endingSessionId)
CheckExistingById(p) ==
    /\ proc[p].pc = "check_id"
    /\ IF Len(getLabel(readLabels(labelsFile), proc[p].endingSessionId)) > 0
       THEN proc' = SetProc(p, Skipped(proc[p], "labeled_by_id"))
       ELSE proc' = SetProc(p, [proc[p] EXCEPT !.pc = "extract"])
    /\ UNCHANGED <<extract, tmpFiles, manualSet, textCall, otherSessionsFile, labelsFile, sessionsFile, writeQueue, config, event, calls, before, prior,
                   committed, observed, gl, net>>

\* a threshold test that lets every transcript through
BelowThresholdNever(userMessages, cfg) ==
    FALSE

\* if (userMessages.length < config.triggerAfterRequests)
BelowThreshold(userMessages, cfg) ==
    Len(userMessages) < cfg.triggerAfterRequests

\* step 4: extractUserMessagesFromFile, the threshold test, the slice
ExtractMessages(p) ==
    /\ proc[p].pc = "extract"
    /\ \/ LET userMessages == extractUserMessagesFromFile(proc[p].endingSessionId,
                                                          config.maxMessagesForLabel)
          IN  IF BelowThreshold(userMessages, config)
              THEN proc' = SetProc(p, Skipped(proc[p], "few_messages"))
              ELSE proc' = SetProc(p, [proc[p] EXCEPT
                              !.pc = "generate",
                              !.messages = Slice0(userMessages, config.maxMessagesForLabel)])
       \/ \* the read stream fails: caught, 'No transcript found, skipping.'
          proc' = SetProc(p, Skipped([proc[p] EXCEPT !.faulted = TRUE], "unreadable"))
    /\ UNCHANGED <<extract, tmpFiles, manualSet, textCall, otherSessionsFile, labelsFile, sessionsFile, writeQueue, config, event, calls, before, prior,
                   committed, observed, gl, net>>

\* a label_turn that counts the messages fed to generateLabel
LabelTurnCountsMessages(cfg, messagesForLabel) ==
    Len(messagesForLabel)

\* label_turn: config.triggerAfterRequests
LabelTurn(cfg, messagesForLabel) ==
    cfg.triggerAfterRequests

\* steps 5 and 6: await generateLabel, build the SessionLabel, call persistLabel,
\* which calls setLabel(labelsPath, endingSessionId, sessionLabel) in every mode
GenerateAndPersist(p, outcome) ==
    /\ proc[p].pc = "generate"
    /\ LET label == generateLabel(outcome, proc[p].messages, config.maxLabelChars)
       IN  proc' = SetProc(p, [proc[p] EXCEPT
                       !.pc = "sl_read",
                       !.llmCalled = TRUE,
                       !.key = proc[p].endingSessionId,
                       !.label = <<SessionLabel(label, "auto",
                                                LabelTurn(config, proc[p].messages))>>])
    /\ UNCHANGED <<extract, tmpFiles, manualSet, textCall, otherSessionsFile, labelsFile, sessionsFile, writeQueue, config, event, calls, before, prior,
                   committed, observed, gl, net>>

(***************************************************************************)
(* setLabelInSessionStoreBySessionId (src/src/session-json-store.ts)       *)
(***************************************************************************)
\* the promise of the call settles: back in persistLabel and labelSession
AfterQueued(rec, rejected) ==
    IF ~rejected THEN Persisted(rec)
    ELSE IF PersistCatch(config) = "rethrow" THEN Threw(rec)
    ELSE Persisted(rec)

\* a then() that runs its callback without waiting for the earlier links
QueueTurnAtOnce(p) ==
    \E i \in 1..Len(writeQueue.chain) : writeQueue.chain[i] = p

\* writeQueue = writeQueue.then(callback): the callback of p gets its turn
\* once every link queued before it has settled
QueueTurn(p) ==
    /\ Len(writeQueue.chain) > 0
    /\ Head(writeQueue.chain) = p

\* the queued callback starts once every earlier link has settled; on a
\* rejected chain then() skips the callback and passes the rejection on
Q_Body(p) ==
    /\ proc[p].pc = "q_wait"
    /\ QueueTurn(p)
    /\ IF writeQueue.rejected
       THEN /\ writeQueue' = [writeQueue EXCEPT !.chain = Tail(@)]
            /\ proc' = SetProc(p, AfterQueued([proc[p] EXCEPT !.sessionsWriteFailed = TRUE],
                                               TRUE))
       ELSE LET store   == readSessionsStore(sessionsFile)
                updated == MatchesSessionId(store, proc[p].endingSessionId) # {}
            IN  IF updated
                THEN /\ proc' = SetProc(p, [proc[p] EXCEPT
                                !.pc = "q_write", !.updated = TRUE,
                                !.data = LabelBySessionId(store, proc[p].endingSessionId,
                                                          proc[p].label[1])])
                     /\ UNCHANGED writeQueue
                ELSE /\ writeQueue' = [writeQueue EXCEPT !.chain = Tail(@)]
                     /\ proc' = SetProc(p, AfterQueued(proc[p], FALSE))
    /\ UNCHANGED <<extract, tmpFiles, manualSet, textCall, otherSessionsFile, labelsFile, sessionsFile, config, event, calls, before, prior, committed,
                   observed, gl, net>>

\* writeSessionsStore: mkdir, writeFile of a fresh temp file, rename over the target
Q_Write(p) ==
    /\ proc[p].pc = "q_write"
    /\ \/ /\ sessionsFile' = FileOk(proc[p].data)
          /\ writeQueue' = [writeQueue EXCEPT !.chain = Tail(@)]
          /\ proc' = SetProc(p, AfterQueued(proc[p], FALSE))
       \/ \* mkdir, writeFile or rename fails: the link rejects
          /\ writeQueue' = [chain |-> Tail(writeQueue.chain), rejected |-> TRUE,
                            by |-> "sessions"]
          /\ proc' = SetProc(p, AfterQueued([proc[p] EXCEPT !.sessionsWriteFailed = TRUE,
                                                            !.faulted = TRUE], TRUE))
          /\ UNCHANGED sessionsFile
    /\ UNCHANGED <<extract, tmpFiles, manualSet, textCall, otherSessionsFile, labelsFile, config, event, calls, before, prior, committed, observed, gl, net>>

(***************************************************************************)
(* Hook invocations, one after the other                                   *)
(***************************************************************************)
InitialSessionsFiles ==
    { FileAbsent,
      FileOk(Put(EmptyMap, "agent:main:main", UnlabelledEntry("s1"))),
      FileOk(Put(EmptyMap, "agent:main:main", SessionEntry("s1", TxtMine, "manual", 1))),
      FileOk(Put(Put(EmptyMap, "agent:main:main", UnlabelledEntry("s2")),
                 "agent:main:alt", SessionEntry("s1", TxtMine, "manual", 1))) }

InitialLabelsFiles ==
    { FileAbsent,
      FileOk(Put(EmptyMap, "s1", SessionLabel(TxtMine, "manual", 1))) }

Init ==
    /\ labelsFile \in InitialLabelsFiles
    /\ sessionsFile \in InitialSessionsFiles
    /\ writeQueue = [chain |-> <<>>, rejected |-> FALSE, by |-> None]
    /\ config \in {resolveConfig(e) : e \in ConfigEntries}
    /\ event \in HookEvents
    /\ proc = [p \in Procs |-> IdleProc]
    /\ calls = 0
    /\ before = Snapshot
    /\ prior = <<>>
    /\ committed = {readLabels(labelsFile)}
    /\ observed = <<>>
    /\ otherSessionsFile = FileAbsent
    /\ textCall = IdleTextCall
    /\ manualSet = {}
    /\ tmpFiles = NoTmpFiles
    /\ extract = IdleExtract
    /\ gl = IdleLabelCall
    /\ net = IdleClient

Next ==
    \E p \in Procs :
        \/ HookInvoke(p)
        \/ ResolveTranscriptPath(p)
        \/ CheckExistingByKey(p)
        \/ CheckExistingById(p)
        \/ ExtractMessages(p)
        \/ \E outcome \in HookLlmOutcomes : GenerateAndPersist(p, outcome)
        \/ SL_Read(p)
        \/ SL_Open(p)
        \/ SL_Data(p)
        \/ Q_Body(p)
        \/ Q_Write(p)

Spec ==
    Init /\ [][Next]_vars

(***************************************************************************)
(* Properties of the hook handler (specification Spec)                     *)
(***************************************************************************)
HookDone(p) ==
    proc[p].kind = "hook" /\ proc[p].pc = "done"

\* the entries of sessions.json, as of the start of the call, that belong to
\* the session being labelled: the one under the event's sessionKey and those
\* whose sessionId is the ending session
EntriesOfSession(p) ==
    {k \in DOMAIN before.sessions.map :
        \/ k = event.sessionKey
        \/ /\ HasField(before.sessions.map[k], "sessionId")
           /\ before.sessions.map[k].sessionId = proc[p].endingSessionId}

ManualBefore(entry) ==
    /\ HasField(entry, "label")
    /\ HasField(entry, "label_source")
    /\ entry.label_source = "manual"

\* C2: with relabel=false, an entry of the session being labelled that held a
\* manual label when the handler was invoked holds the same label text and
\* label_source when the handler has returned, in sessions.json and in
\* labels.json alike.
C2_NeverOverwriteManual ==
    \A p \in Procs :
        (HookDone(p) /\ ~config.relabel) =>
            /\ \A k \in EntriesOfSession(p) :
                  ManualBefore(before.sessions.map[k]) =>
                      /\ sessionsFile.st = "ok"
                      /\ k \in DOMAIN sessionsFile.map
                      /\ sessionsFile.map[k].label = before.sessions.map[k].label
                      /\ sessionsFile.map[k].label_source = "manual"
            /\ \A k \in DOMAIN before.labels.map :
                  (k = proc[p].endingSessionId /\ ManualBefore(before.labels.map[k])) =>
                      /\ labelsFile.st = "ok"
                      /\ k \in DOMAIN labelsFile.map
                      /\ labelsFile.map[k] = before.labels.map[k]

\* the previous invocation ran to its end and no file operation failed in it
PriorCompletedCleanly ==
    /\ Len(prior) = 1
    /\ prior[1].lsOutcome # "threw"
    /\ ~prior[1].faulted

\* C3: with relabel=false, a second invocation for the same session, after a
\* first one that completed, writes nothing: both store files are what the
\* first invocation left, whatever the candidate source would return.
C3_Idempotent ==
    \A p \in Procs :
        (HookDone(p) /\ ~config.relabel /\ PriorCompletedCleanly) =>
            /\ labelsFile = before.labels
            /\ sessionsFile = before.sessions
            /\ ~proc[p].llmCalled

\* C3 witness: the second invocation has returned and the label the first one
\* generated is the stored one.
C3_Witness ==
    \E p \in Procs :
        /\ HookDone(p) /\ ~config.relabel /\ PriorCompletedCleanly
        /\ proc[p].endingSessionId # None
        /\ labelsFile.st = "ok"
        /\ proc[p].endingSessionId \in DOMAIN labelsFile.map
        /\ labelsFile.map[proc[p].endingSessionId].label_source = "auto"

PersistFailed(p) ==
    proc[p].labelsWriteFailed \/ proc[p].sessionsWriteFailed

\* C7 as stated: a failed store write makes the invocation reject.
C7_FailurePropagatesToCaller ==
    \A p \in Procs :
        (HookDone(p) /\ PersistFailed(p)) => proc[p].hOutcome = "rejected"

\* C7 amended: a failed labels.json write, and a failed sessions.json update
\* when allowSidecarFallback is false, make labelSession reject without the
\* 'Labeled' log; handler logs the error and resolves.  A failed sessions.json
\* update with allowSidecarFallback=true is absorbed and the invocation
\* completes as labelled.
C7_FailureReachesLabelSession ==
    \A p \in Procs :
        HookDone(p) =>
            /\ (proc[p].labelsWriteFailed
                  \/ (proc[p].sessionsWriteFailed /\ ~config.allowSidecarFallback)) =>
                    /\ proc[p].lsOutcome = "threw"
                    /\ proc[p].errorLogged
                    /\ ~proc[p].labeledLogged
                    /\ proc[p].hOutcome = "resolved"
            /\ (proc[p].sessionsWriteFailed /\ config.allowSidecarFallback) =>
                    /\ proc[p].lsOutcome = "returned"
                    /\ proc[p].labeledLogged

\* C7 witness: the sessions.json update failed with allowSidecarFallback=false
\* and labelSession rejected.
C7_Witness ==
    \E p \in Procs :
        /\ HookDone(p)
        /\ proc[p].sessionsWriteFailed
        /\ ~config.allowSidecarFallback
        /\ proc[p].lsOutcome = "threw"

\* C8: handler(event) never rejects, whatever fails inside labelSession.
C8_HandlerNeverRejects ==
    \A p \in Procs :
        proc[p].kind = "hook" => proc[p].hOutcome # "rejected"

\* C8 witness: labelSession threw (a failed labels.json write) and handler resolved.
C8_Witness ==
    \E p \in Procs :
        /\ HookDone(p)
        /\ proc[p].lsOutcome = "threw"
        /\ proc[p].labelsWriteFailed
        /\ proc[p].hOutcome = "resolved"

(***************************************************************************)
(* Direct callers of the labels store, running concurrently, and a reader  *)
(* (src/src/labels-store.ts; src/tests/labels-store.test.ts lines 22-45)   *)
(***************************************************************************)
StoreKeys ==
    {"session:a", "session:b"}

StoreTexts ==
    {TxtAlpha, TxtBeta}

\* setLabel(labelsPath, key, label) is called; it runs up to its first await
StoreCall(p, key, text) ==
    /\ calls < MaxCalls
    /\ FreeSlot(p)
    /\ calls' = calls + 1
    /\ proc' = SetProc(p, [IdleProc EXCEPT !.kind = "store", !.pc = "sl_read", !.key = key,
                                           !.label = <<SessionLabel(text, "auto", 3)>>])
    /\ UNCHANGED <<extract, tmpFiles, manualSet, textCall, otherSessionsFile, labelsFile, sessionsFile, writeQueue, config, event, before, prior,
                   committed, observed, gl, net>>

\* another reader opens labels.json and reads what is in it at that moment
ReadLabelsFile ==
    /\ observed' = <<labelsFile>>
    /\ UNCHANGED <<extract, tmpFiles, manualSet, textCall, otherSessionsFile, labelsFile, sessionsFile, writeQueue, config, event, proc, calls, before,
                   prior, committed, gl, net>>

InitStore ==
    /\ labelsFile \in InitialLabelsFiles
    /\ sessionsFile = FileAbsent
    /\ writeQueue = [chain |-> <<>>, rejected |-> FALSE, by |-> None]
    /\ config = resolveConfig([persistenceMode |-> "labels_json"])
    /\ event = HookEvent("command", "new", None, None, TRUE)
    /\ proc = [p \in Procs |-> IdleProc]
    /\ calls = 0
    /\ before = Snapshot
    /\ prior = <<>>
    /\ committed = {readLabels(labelsFile)}
    /\ observed = <<>>
    /\ otherSessionsFile = FileAbsent
    /\ textCall = IdleTextCall
    /\ manualSet = {}
    /\ tmpFiles = NoTmpFiles
    /\ extract = IdleExtract
    /\ gl = IdleLabelCall
    /\ net = IdleClient

NextStore ==
    \/ \E p \in Procs, key \in StoreKeys, text \in StoreTexts : StoreCall(p, key, text)
    \/ \E p \in Procs : SL_Read(p)
    \/ \E p \in Procs : SL_Open(p)
    \/ \E p \in Procs : SL_Data(p)
    \/ ReadLabelsFile

SpecStore ==
    InitStore /\ [][NextStore]_vars

StoreDone(p) ==
    proc[p].kind = "store" /\ proc[p].pc = "done" /\ proc[p].hOutcome = "resolved"

HoldsLabelOf(p) ==
    /\ labelsFile.st = "ok"
    /\ proc[p].key \in DOMAIN labelsFile.map
    /\ labelsFile.map[proc[p].key] = proc[p].label[1]

\* C1: when two overlapping setLabel calls for distinct keys have both
\* resolved, labels.json holds each key with the label of its call.
C1_NoLostUpdate ==
    \A p \in Procs : \A q \in Procs :
        (p # q /\ StoreDone(p) /\ StoreDone(q) /\ proc[p].key # proc[q].key) =>
            (HoldsLabelOf(p) /\ HoldsLabelOf(q))

\* C4: what a reader finds in labels.json is never a truncated or partly
\* written file: it is the file as it was at the start or the complete
\* mapping of a completed write.
C4_ReaderNeverSeesPartialFile ==
    Len(observed) = 1 =>
        /\ observed[1].st # "partial"
        /\ readLabels(observed[1]) \in committed

\* C6: once a completed write has put key k in labels.json, k is there with a
\* non-empty label whenever no call is in progress, even when no file
\* operation has failed.
C6_LabelNeverVanishes ==
    (\A p \in Procs : ~Running(p) /\ ~proc[p].faulted) =>
        \A m \in committed : \A k \in DOMAIN m :
            /\ labelsFile.st = "ok"
            /\ k \in DOMAIN labelsFile.map
            /\ Len(labelsFile.map[k].label) > 0

(***************************************************************************)
(* generateLabel over the client createLlmClient builds                    *)
(* (src/create_dist.sh lines 60-85; handler.ts lines 352-408)              *)
(***************************************************************************)
\* the largest max_chars the model tries besides the default
MaxBudget ==
    8

\* the longest provider text the model enumerates character by character
MaxRawLen ==
    3

Budgets ==
    (1..MaxBudget) \cup {DEFAULT_CONFIG.maxLabelChars}

RawAlphabet ==
    {"a", " ", ".", "\""}

RECURSIVE SeqsUpTo(_, _)
SeqsUpTo(alphabet, n) ==
    IF n = 0 THEN {<<>>}
    ELSE LET shorter == SeqsUpTo(alphabet, n - 1)
         IN  shorter \cup {Append(s, c) : s \in {t \in shorter : Len(t) = n - 1}, c \in alphabet}

\* message.content of the provider's reply
RawTexts ==
    SeqsUpTo(RawAlphabet, MaxRawLen)
    \cup { TxtTaxFix,
           <<"\"", "S", "t", "r", "i", "p", "e", " ", "W", "e", "b", "h", "o", "o", "k", " ", "S", "e", "t", "u", "p", ".", "\"">>,
           <<Bullet, " ", "W", "o", "o", " ", "c", "o", "n", "f", "i", "g", " ", " ">> }

\* LabelerInput.requests
LabelRequests ==
    { <<>>,
      <<Msg4, <<"o", "k">>, <<"y", "e", "s">>>>,
      <<Msg1>>,
      <<Msg1, Msg2, Msg3>> }

\* complete() rejected: generateLabel's catch runs next
CompleteThrows(call) ==
    [call EXCEPT !.pc = "settle", !.outcome = <<LlmThrows>>]

\* generateLabel(llm, input): buildPrompt, then llm.complete(prompt) up to its
\* first await.  Without OPENAI_API_KEY complete() throws at once; with it the
\* abort timer is set and fetch is called.
GL_Call(requests, max_chars) ==
    /\ gl.pc = "idle"
    /\ LET call == [gl EXCEPT !.requests = requests, !.max_chars = max_chars,
                              !.completeCalls = 1, !.pc = "awaiting"]
       IN  IF ~net.apiKey
           THEN /\ gl' = CompleteThrows(call)
                /\ UNCHANGED net
           ELSE /\ gl' = call
                /\ net' = [net EXCEPT !.pc = "fetching", !.timer = "armed"]
    /\ UNCHANGED <<extract, tmpFiles, manualSet, textCall, otherSessionsFile, labelsFile, sessionsFile, writeQueue, config, event, proc, calls, before,
                   prior, committed, observed>>

\* fetch resolves with the response head; finally { clearTimeout(timeout) }
FetchResolves(ok) ==
    /\ net.pc = "fetching"
    /\ net' = [net EXCEPT !.pc = "reading_body", !.timer = "cleared", !.ok = ok]
    /\ UNCHANGED <<extract, tmpFiles, manualSet, textCall, otherSessionsFile, labelsFile, sessionsFile, writeQueue, config, event, proc, calls, before,
                   prior, committed, observed, gl>>

\* fetch rejects (a network error); finally { clearTimeout(timeout) }
FetchRejects ==
    /\ net.pc = "fetching"
    /\ net' = [net EXCEPT !.pc = "idle", !.timer = "cleared"]
    /\ gl' = CompleteThrows(gl)
    /\ UNCHANGED <<extract, tmpFiles, manualSet, textCall, otherSessionsFile, labelsFile, sessionsFile, writeQueue, config, event, proc, calls, before,
                   prior, committed, observed>>

\* the 10 s timer fires: controller.abort() makes the pending fetch reject
TimeoutFires ==
    /\ net.timer = "armed"
    /\ net' = [net EXCEPT !.pc = "idle", !.timer = "fired"]
    /\ gl' = CompleteThrows(gl)
    /\ UNCHANGED <<extract, tmpFiles, manualSet, textCall, otherSessionsFile, labelsFile, sessionsFile, writeQueue, config, event, proc, calls, before,
                   prior, committed, observed>>

\* the body arrives: response.text() of a failed request, then throw; or
\* response.json(), then the content, and a throw when there is none
BodyRead(raw) ==
    /\ net.pc = "reading_body"
    /\ net' = [net EXCEPT !.pc = "idle"]
    /\ IF ~net.ok \/ Len(raw) = 0
       THEN gl' = CompleteThrows(gl)
       ELSE gl' = [gl EXCEPT !.pc = "settle", !.outcome = <<LlmReturns(raw)>>]
    /\ UNCHANGED <<extract, tmpFiles, manualSet, textCall, otherSessionsFile, labelsFile, sessionsFile, writeQueue, config, event, proc, calls, before,
                   prior, committed, observed>>

\* the connection breaks while the body is read, or the body is not JSON
BodyFails ==
    /\ net.pc = "reading_body"
    /\ net' = [net EXCEPT !.pc = "idle"]
    /\ gl' = CompleteThrows(gl)
    /\ UNCHANGED <<extract, tmpFiles, manualSet, textCall, otherSessionsFile, labelsFile, sessionsFile, writeQueue, config, event, proc, calls, before,
                   prior, committed, observed>>

\* the rest of generateLabel once complete() has settled
GL_Return ==
    /\ gl.pc = "settle"
    /\ gl' = [gl EXCEPT !.pc = "done",
                        !.heuristicCalls = HeuristicCalls(gl.outcome[1], gl.max_chars),
                        !.result = <<generateLabel(gl.outcome[1], gl.requests, gl.max_chars)>>]
    /\ UNCHANGED <<extract, tmpFiles, manualSet, textCall, otherSessionsFile, labelsFile, sessionsFile, writeQueue, config, event, proc, calls, before,
                   prior, committed, observed, net>>

InitLabel ==
    /\ labelsFile = FileAbsent
    /\ sessionsFile = FileAbsent
    /\ writeQueue = [chain |-> <<>>, rejected |-> FALSE, by |-> None]
    /\ config = resolveConfig([persistenceMode |-> "labels_json"])
    /\ event = HookEvent("command", "new", None, None, TRUE)
    /\ proc = [p \in Procs |-> IdleProc]
    /\ calls = 0
    /\ before = Snapshot
    /\ prior = <<>>
    /\ committed = {readLabels(labelsFile)}
    /\ observed = <<>>
    /\ otherSessionsFile = FileAbsent
    /\ textCall = IdleTextCall
    /\ manualSet = {}
    /\ tmpFiles = NoTmpFiles
    /\ extract = IdleExtract
    /\ gl = IdleLabelCall
    /\ net \in {[IdleClient EXCEPT !.apiKey = k] : k \in BOOLEAN}

NextLabel ==
    \/ \E requests \in LabelRequests, max_chars \in Budgets : GL_Call(requests, max_chars)
    \/ \E ok \in BOOLEAN : FetchResolves(ok)
    \/ FetchRejects
    \/ TimeoutFires
    \/ \E raw \in RawTexts : BodyRead(raw)
    \/ BodyFails
    \/ GL_Return

SpecLabel ==
    InitLabel /\ [][NextLabel]_vars

LabelDone ==
    gl.pc = "done"

\* C5: whatever the candidate source does, for every max_chars >= 1 the label
\* generateLabel returns has at least 1 and at most max_chars characters.
C5_LabelWithinBudget ==
    LabelDone =>
        /\ Len(gl.result[1]) >= 1
        /\ Len(gl.result[1]) <= gl.max_chars

CandidateFailed ==
    \/ gl.outcome[1].kind = "throw"
    \/ Len(sanitize(gl.outcome[1].raw)) = 0

\* C9: when llm.complete throws, or returns text that sanitizes to the empty
\* string, generateLabel returns heuristicLabel of the same input.
C9_FallsBackToHeuristic ==
    (LabelDone /\ CandidateFailed) =>
        gl.result[1] = heuristicLabel(gl.requests, gl.max_chars)

\* C9 witness: the provider answered with text that is all quotes and
\* punctuation, and the label returned is built from the requests.
C9_Witness ==
    /\ LabelDone
    /\ gl.outcome[1].kind = "text"
    /\ Len(gl.outcome[1].raw) > 0
    /\ Len(sanitize(gl.outcome[1].raw)) = 0
    /\ gl.result[1] = heuristicLabel(gl.requests, gl.max_chars)
    /\ gl.result[1] # FALLBACK_LABEL

\* C10: as long as complete() waits for the provider, for the response head
\* or for the body, the 10 s abort timer is armed.
C10_TimeoutCoversWholeCall ==
    net.pc \in {"fetching", "reading_body"} => net.timer = "armed"

(***************************************************************************)
(* One attempt per generateLabel call (specification SpecAttempt)          *)
(***************************************************************************)
\* provider texts: usable labels, texts that sanitize to nothing, an empty body
AttemptRawTexts ==
    {r \in RawTexts : Len(r) <= 1 \/ Len(r) > MaxRawLen} \cup {<<"\"", "\"">>}

AttemptBudgets ==
    {1, 3, MaxBudget, DEFAULT_CONFIG.maxLabelChars}

NextAttempt ==
    \/ \E requests \in LabelRequests, max_chars \in AttemptBudgets :
          GL_Call(requests, max_chars)
    \/ \E ok \in BOOLEAN : FetchResolves(ok)
    \/ FetchRejects
    \/ TimeoutFires
    \/ \E raw \in AttemptRawTexts : BodyRead(raw)
    \/ BodyFails
    \/ GL_Return

SpecAttempt ==
    InitLabel /\ [][NextAttempt]_vars

\* complete() returned a text that is still non-empty after sanitize and
\* enforceMaxLength
CandidateUsable ==
    /\ Len(gl.outcome) = 1
    /\ gl.outcome[1].kind = "text"
    /\ Len(gl.result) = 1
    /\ gl.result[1] # heuristicLabel(gl.requests, gl.max_chars)

C35_WitnessNoFallback ==
    /\ LabelDone
    /\ CandidateUsable
    /\ gl.completeCalls = 1
    /\ gl.heuristicCalls = 0

(***************************************************************************)
(* Frame properties of the hook handler (specification Spec)               *)
(***************************************************************************)
NothingWritten ==
    /\ labelsFile = before.labels
    /\ sessionsFile = before.sessions

\* the transcript of the ending session holds fewer user messages than the threshold
TooFewMessages(p) ==
    /\ proc[p].endingSessionId # None
    /\ Len(extractUserMessagesFromFile(proc[p].endingSessionId,
                                       config.maxMessagesForLabel))
           < config.triggerAfterRequests

InputUnavailable(p) ==
    \/ proc[p].skip \in {"no_transcript", "unreadable_dir", "unreadable"}
    \/ TooFewMessages(p)

\* C11: when no transcript is resolved, the transcript or its directory cannot
\* be read, or the transcript holds fewer user messages than
\* triggerAfterRequests, handler resolves, the candidate source is not called
\* and labels.json and sessions.json are what they were at the invocation.
C11_InputUnavailableIsNoOp ==
    \A p \in Procs :
        (HookDone(p) /\ InputUnavailable(p)) =>
            /\ proc[p].hOutcome = "resolved"
            /\ ~proc[p].llmCalled
            /\ NothingWritten

\* C11 witness: an invocation has skipped a transcript of 2 user messages
\* under the default threshold of 3.
C11_Witness ==
    \E p \in Procs :
        /\ HookDone(p)
        /\ proc[p].skip = "few_messages"
        /\ TooFewMessages(p)
        /\ config.triggerAfterRequests = DEFAULT_CONFIG.triggerAfterRequests
        /\ NothingWritten

\* the invocation had a transcript with enough user messages and no file
\* operation of it failed
RunnableCleanly(p) ==
    /\ HookDone(p)
    /\ proc[p].endingSessionId # None
    /\ ~TooFewMessages(p)
    /\ ~proc[p].faulted
    /\ ~PersistFailed(p)

\* the entries of the ending session hold the label this invocation generated
HoldsGeneratedLabel(p) ==
    /\ Len(proc[p].label) = 1
    /\ labelsFile.st = "ok"
    /\ proc[p].endingSessionId \in DOMAIN labelsFile.map
    /\ labelsFile.map[proc[p].endingSessionId] = proc[p].label[1]
    /\ proc[p].label[1].label_source = "auto"
    /\ ~LabelsOnly(config) =>
          \A k \in DOMAIN readSessionsStore(sessionsFile) :
              LET entry == readSessionsStore(sessionsFile)[k]
              IN  (HasField(entry, "sessionId")
                     /\ entry.sessionId = proc[p].endingSessionId) =>
                      /\ entry.label = proc[p].label[1].label
                      /\ entry.label_source = "auto"

\* C12: with relabel=true an invocation on a session with enough user
\* messages, none of whose file operations fails, generates a label and
\* stores it with label_source auto under the ending session id in
\* labels.json and, in session_json mode, in every sessions.json entry of
\* that session, whatever label was there.
C12_RelabelOverwrites ==
    \A p \in Procs :
        (RunnableCleanly(p) /\ config.relabel) =>
            /\ proc[p].labeledLogged
            /\ HoldsGeneratedLabel(p)

\* C12 witness: manual labels in labels.json and in sessions.json have both
\* been replaced by the generated one.
C12_Witness ==
    \E p \in Procs :
        /\ RunnableCleanly(p) /\ config.relabel
        /\ \E k \in DOMAIN before.labels.map :
              /\ k = proc[p].endingSessionId
              /\ ManualBefore(before.labels.map[k])
        /\ \E k \in EntriesOfSession(p) :
              /\ ManualBefore(before.sessions.map[k])
              /\ sessionsFile.map[k].label_source = "auto"
        /\ HoldsGeneratedLabel(p)

\* the event is a command whose action is among the configured trigger actions
MatchingEvent ==
    /\ event.type = "command"
    /\ event.action \in config.triggerActions

\* C15: an invocation for an event that is not a command, or whose action is
\* not in triggerActions, returns without calling the candidate source and
\* leaves labels.json and sessions.json as they were; an invocation for a
\* matching event, a stop command under the default actions included, goes on
\* to labelSession.
C15_ActsOnlyOnMatchingEvents ==
    \A p \in Procs :
        HookDone(p) =>
            /\ ~MatchingEvent =>
                  /\ proc[p].skip = "not_trigger"
                  /\ proc[p].hOutcome = "resolved"
                  /\ ~proc[p].llmCalled
                  /\ NothingWritten
            /\ MatchingEvent => proc[p].skip # "not_trigger"

\* C15 witness: under the default trigger actions an invocation for a stop
\* command has called the candidate source and stored a label.
C15_Witness ==
    \E p \in Procs :
        /\ HookDone(p)
        /\ event.action = "stop"
        /\ config.triggerActions = DEFAULT_CONFIG.triggerActions
        /\ proc[p].llmCalled
        /\ ~NothingWritten

\* C15 witness of the other case: a new command under triggerActions = [stop]
\* has been ignored.
C15_WitnessIgnored ==
    \E p \in Procs :
        /\ HookDone(p)
        /\ event.type = "command"
        /\ event.action = "new"
        /\ config.triggerActions = {"stop"}
        /\ proc[p].skip = "not_trigger"

(***************************************************************************)
(* What a completed invocation leaves in the stores (specification Spec)   *)
(***************************************************************************)
\* at the invocation neither store held a label for the ending session:
\* none under the event's session key in sessions.json, none under the
\* ending session id in labels.json
NoPriorLabel(p) ==
    /\ getLabelFromSessionStore(readSessionsStore(before.sessions), event.sessionKey) = <<>>
    /\ \A k \in MatchesSessionId(readSessionsStore(before.sessions), proc[p].endingSessionId) :
          getLabelFromSessionStore(readSessionsStore(before.sessions), k) = <<>>
    /\ getLabel(readLabels(before.labels), proc[p].endingSessionId) = <<>>

\* a label record the pipeline produced, as an entry of a store
IsAutoLabel(entry) ==
    /\ HasField(entry, "label")
    /\ Len(entry.label) > 0
    /\ Len(entry.label) <= config.maxLabelChars
    /\ HasField(entry, "label_source") /\ entry.label_source = "auto"
    /\ HasField(entry, "label_version") /\ entry.label_version = "1.0"

\* C21: in session_json mode, after an invocation on a session with at least
\* triggerAfterRequests user messages and no prior label, none of whose file
\* operations failed, sessions.json holds under the event's session key an
\* entry with a non-empty label of at most maxLabelChars characters, source
\* auto and version 1.0, whether or not sessions.json or that entry existed.
C21_SessionsJsonHoldsLabel ==
    \A p \in Procs :
        (/\ RunnableCleanly(p)
         /\ config.persistenceMode = "session_json"
         /\ event.sessionKey # None
         /\ NoPriorLabel(p)) =>
            /\ sessionsFile.st = "ok"
            /\ event.sessionKey \in DOMAIN sessionsFile.map
            /\ IsAutoLabel(sessionsFile.map[event.sessionKey])

\* the part of C21 where sessions.json had an entry under the event's session
\* key that points at the ending session
C21_ExistingEntryGetsLabel ==
    \A p \in Procs :
        (/\ RunnableCleanly(p)
         /\ config.persistenceMode = "session_json"
         /\ event.sessionKey # None
         /\ NoPriorLabel(p)
         /\ event.sessionKey \in MatchesSessionId(readSessionsStore(before.sessions),
                                                  proc[p].endingSessionId)) =>
            /\ sessionsFile.st = "ok"
            /\ event.sessionKey \in DOMAIN sessionsFile.map
            /\ IsAutoLabel(sessionsFile.map[event.sessionKey])

\* labels.json holds a non-empty label under key k
LabelsJsonHolds(k) ==
    /\ labelsFile.st = "ok"
    /\ k \in DOMAIN labelsFile.map
    /\ Len(labelsFile.map[k].label) > 0

\* C22: in sidecar_labels_json mode, after an invocation on a session with at
\* least triggerAfterRequests user messages that generated a label and none
\* of whose file operations failed, labels.json holds a non-empty label under
\* the event's session key.
C22_SidecarLabelUnderSessionKey ==
    \A p \in Procs :
        (/\ RunnableCleanly(p)
         /\ proc[p].labeledLogged
         /\ config.persistenceMode = "sidecar_labels_json"
         /\ event.sessionKey # None) =>
            LabelsJsonHolds(event.sessionKey)

\* what holds in place of C22: the label is under the ending session id
C22_SidecarLabelUnderEndingSessionId ==
    \A p \in Procs :
        (/\ RunnableCleanly(p)
         /\ config.persistenceMode = "sidecar_labels_json") =>
            LabelsJsonHolds(proc[p].endingSessionId)

\* the keys of labels.json whose record is not the one of the invocation's start
WrittenLabelKeys ==
    {k \in DOMAIN readLabels(labelsFile) :
        \/ k \notin DOMAIN readLabels(before.labels)
        \/ readLabels(labelsFile)[k] # readLabels(before.labels)[k]}

\* the keys of sessions.json whose entry is not the one of the invocation's start
WrittenSessionKeys ==
    {k \in DOMAIN readSessionsStore(sessionsFile) :
        \/ k \notin DOMAIN readSessionsStore(before.sessions)
        \/ readSessionsStore(sessionsFile)[k] # readSessionsStore(before.sessions)[k]}

IsPipelineRecord(entry) ==
    /\ HasField(entry, "label_turn") /\ entry.label_turn = config.triggerAfterRequests
    /\ HasField(entry, "label_source") /\ entry.label_source = "auto"
    /\ HasField(entry, "label_version") /\ entry.label_version = "1.0"

\* C23: every record an invocation has written, in labels.json or in an entry
\* of sessions.json, has label_turn = triggerAfterRequests, label_source auto
\* and label_version 1.0.
C23_RecordCarriesThreshold ==
    /\ \A k \in WrittenLabelKeys : IsPipelineRecord(labelsFile.map[k])
    /\ \A k \in WrittenSessionKeys : IsPipelineRecord(sessionsFile.map[k])

\* C23 witness: a record was written to both files with label_turn 3 for a
\* transcript of which 4 user messages were read and fed to generateLabel.
C23_Witness ==
    \E p \in Procs :
        /\ HookDone(p)
        /\ proc[p].labeledLogged
        /\ proc[p].endingSessionId \in WrittenLabelKeys
        /\ WrittenSessionKeys # {}
        /\ config.triggerAfterRequests = 3
        /\ Len(extractUserMessagesFromFile(proc[p].endingSessionId,
                                           config.maxMessagesForLabel)) = 4

\* the number of user messages the transcript holds
UserMessageCount(id) ==
    Len(extractUserMessagesFromFile(id, Len(Transcript(id))))

\* the invocation was for a trigger event, found a transcript with at least
\* triggerAfterRequests user messages and no label, and none of its file
\* operations failed
Eligible(p) ==
    /\ HookDone(p)
    /\ MatchingEvent
    /\ proc[p].endingSessionId # None
    /\ ~proc[p].faulted
    /\ ~PersistFailed(p)
    /\ UserMessageCount(proc[p].endingSessionId) >= config.triggerAfterRequests
    /\ NoPriorLabel(p)

\* C27: under every configuration an invocation for a session with at least
\* triggerAfterRequests user messages and no label labels it: it is not
\* skipped as below the threshold.
C27_EligibleSessionIsLabelled ==
    \A p \in Procs :
        Eligible(p) =>
            /\ proc[p].skip # "few_messages"
            /\ proc[p].labeledLogged

\* the part of C27 with maxMessagesForLabel >= triggerAfterRequests
C27_EligibleWhenLimitCoversThreshold ==
    \A p \in Procs :
        (Eligible(p) /\ config.maxMessagesForLabel >= config.triggerAfterRequests) =>
            /\ proc[p].skip # "few_messages"
            /\ proc[p].labeledLogged

(***************************************************************************)
(* Order and fallback of persistLabel (specification Spec)                 *)
(***************************************************************************)
\* labels.json holds the record of this invocation under the ending session id
KeptInLabelsJson(p) ==
    /\ Len(proc[p].label) = 1
    /\ proc[p].endingSessionId # None
    /\ labelsFile.st = "ok"
    /\ proc[p].endingSessionId \in DOMAIN labelsFile.map
    /\ labelsFile.map[proc[p].endingSessionId] = proc[p].label[1]

\* the invocation has reached the sessions.json update of persistLabel
AtSessionsUpdate(p) ==
    \/ proc[p].pc \in {"q_wait", "q_write"}
    \/ sessionsFile # before.sessions

\* C29: in session_json mode persistLabel writes labels.json under the ending
\* session id before it touches sessions.json; when the sessions.json update
\* fails and allowSidecarFallback is true the invocation completes as
\* labelled with the record kept in labels.json; when it is false the error
\* is rethrown and the labels.json record remains.
C29_SidecarFirstThenSessionsJson ==
    \A p \in Procs :
        (proc[p].kind = "hook" /\ ~LabelsOnly(config)) =>
            /\ AtSessionsUpdate(p) => KeptInLabelsJson(p)
            /\ (HookDone(p) /\ proc[p].sessionsWriteFailed
                  /\ config.allowSidecarFallback) =>
                    /\ proc[p].lsOutcome = "returned"
                    /\ proc[p].labeledLogged
                    /\ KeptInLabelsJson(p)
            /\ (HookDone(p) /\ proc[p].sessionsWriteFailed
                  /\ ~config.allowSidecarFallback) =>
                    /\ proc[p].lsOutcome = "threw"
                    /\ ~proc[p].labeledLogged
                    /\ KeptInLabelsJson(p)

\* C29 witness: the write of sessions.json failed under
\* allowSidecarFallback=true; the invocation completed as labelled,
\* sessions.json is what it was and labels.json holds the record.
C29_Witness ==
    \E p \in Procs :
        /\ HookDone(p)
        /\ ~LabelsOnly(config)
        /\ config.allowSidecarFallback
        /\ proc[p].sessionsWriteFailed
        /\ proc[p].faulted
        /\ proc[p].labeledLogged
        /\ sessionsFile = before.sessions
        /\ KeptInLabelsJson(p)

\* C29 witness of the other branch: allowSidecarFallback=false, the error
\* was rethrown and the labels.json record is still there.
C29_WitnessRethrown ==
    \E p \in Procs :
        /\ HookDone(p)
        /\ ~config.allowSidecarFallback
        /\ proc[p].sessionsWriteFailed
        /\ proc[p].lsOutcome = "threw"
        /\ KeptInLabelsJson(p)

(***************************************************************************)
(* The labels-only modes (specification Spec)                              *)
(***************************************************************************)
SidecarMode ==
    config.persistenceMode \in {"labels_json", "sidecar_labels_json"}

C30_WitnessNotCreated ==
    \E p \in Procs :
        /\ HookDone(p)
        /\ SidecarMode
        /\ proc[p].labeledLogged
        /\ before.sessions = FileAbsent
        /\ sessionsFile = FileAbsent

(***************************************************************************)
(* Frame of setLabel (specification SpecStore)                             *)
(***************************************************************************)
\* the only setLabel call of the behaviour has resolved: nothing interfered
RanAlone(p) ==
    /\ StoreDone(p)
    /\ calls = 1

\* C28: after a setLabel(path, k, v) that ran without interference the
\* mapping has k -> v, every other key that was there before with the record
\* it had, and no key fewer.
C28_SetLabelChangesOnlyKey ==
    \A p \in Procs :
        RanAlone(p) =>
            LET old == readLabels(before.labels)
                new == readLabels(labelsFile)
            IN  /\ labelsFile.st = "ok"
                /\ proc[p].key \in DOMAIN new
                /\ new[proc[p].key] = proc[p].label[1]
                /\ \A k \in DOMAIN old : k \in DOMAIN new
                /\ \A k \in (DOMAIN old) \ {proc[p].key} : new[k] = old[k]
                /\ DOMAIN new = (DOMAIN old) \cup {proc[p].key}

\* C28 witness: a call that ran alone added its key to a labels.json that
\* already held another key.
C28_Witness ==
    \E p \in Procs :
        /\ RanAlone(p)
        /\ \E k \in DOMAIN readLabels(before.labels) : k # proc[p].key
        /\ proc[p].key \notin DOMAIN readLabels(before.labels)
        /\ HoldsLabelOf(p)

(***************************************************************************)
(* Direct callers of the sessions.json store, two sessions directories     *)
(* (src/src/session-json-store.ts)                                         *)
(***************************************************************************)
SessionsDirs ==
    {"sessions", "other"}

\* sessionsJsonPathFromSessionsDir, as the file the path names
StoreFile(dir) ==
    IF dir = "sessions" THEN sessionsFile ELSE otherSessionsFile

\* the target of a call: a session key (setLabelInSessionStore) or a session
\* id (setLabelInSessionStoreBySessionId)
TargetOf(op) ==
    IF op = "by_key" THEN "agent:main:main" ELSE "s1"

\* what the queued callback does to the store it has read
SJ_Merge(store, rec) ==
    IF rec.op = "by_key"
    THEN Put(store, rec.key,
             WithLabel(IF rec.key \in DOMAIN store THEN store[rec.key] ELSE EmptyMap,
                       rec.label[1]))
    ELSE LabelBySessionId(store, rec.key, rec.label[1])

\* setLabelInSessionStore always writes; ...BySessionId only 'if (updated)'
SJ_Writes(store, rec) ==
    rec.op = "by_key" \/ MatchesSessionId(store, rec.key) # {}

\* the link of p settles and leaves the chain
Unqueue(p) ==
    SelectSeq(writeQueue.chain, LAMBDA q : q # p)

SJ_Settled(rec, outcome) ==
    [rec EXCEPT !.pc = "done", !.hOutcome = outcome, !.data = EmptyMap]

\* setLabelInSessionStore(dir, key, label) or
\* setLabelInSessionStoreBySessionId(dir, id, label) is called: it queues its
\* callback on writeQueue and awaits the new tail
SJ_Call(p, dir, op, text) ==
    /\ calls < MaxCalls
    /\ FreeSlot(p)
    /\ calls' = calls + 1
    /\ proc' = SetProc(p, [IdleProc EXCEPT !.kind = "sessions", !.pc = "sj_wait",
                                           !.dir = dir, !.op = op, !.key = TargetOf(op),
                                           !.seq = calls + 1,
                                           !.label = <<SessionLabel(text, "auto", 3)>>])
    /\ writeQueue' = [writeQueue EXCEPT !.chain = Append(@, p)]
    /\ UNCHANGED <<extract, tmpFiles, manualSet, textCall, labelsFile, sessionsFile, otherSessionsFile, config, event, before, prior,
                   committed, observed, gl, net>>

\* the callback of p starts: readSessionsStore, the merge; a rejected chain
\* skips the callback and the call rejects
SJ_Body(p) ==
    /\ proc[p].pc = "sj_wait"
    /\ QueueTurn(p)
    /\ IF writeQueue.rejected
       THEN /\ writeQueue' = [writeQueue EXCEPT !.chain = Unqueue(p)]
            /\ proc' = SetProc(p, SJ_Settled([proc[p] EXCEPT !.sessionsWriteFailed = TRUE],
                                              "rejected"))
       ELSE LET store == readSessionsStore(StoreFile(proc[p].dir))
            IN  IF SJ_Writes(store, proc[p])
                THEN /\ proc' = SetProc(p, [proc[p] EXCEPT !.pc = "sj_write", !.updated = TRUE,
                                                           !.data = SJ_Merge(store, proc[p])])
                     /\ UNCHANGED writeQueue
                ELSE /\ writeQueue' = [writeQueue EXCEPT !.chain = Unqueue(p)]
                     /\ proc' = SetProc(p, SJ_Settled(proc[p], "resolved"))
    /\ UNCHANGED <<extract, tmpFiles, manualSet, textCall, labelsFile, sessionsFile, otherSessionsFile, config, event, calls, before,
                   prior, committed, observed, gl, net>>

\* writeSessionsStore of p: mkdir, writeFile of a fresh temp file, rename
SJ_Write(p) ==
    /\ proc[p].pc = "sj_write"
    /\ \/ /\ IF proc[p].dir = "sessions"
             THEN sessionsFile' = FileOk(proc[p].data) /\ UNCHANGED otherSessionsFile
             ELSE otherSessionsFile' = FileOk(proc[p].data) /\ UNCHANGED sessionsFile
          /\ writeQueue' = [writeQueue EXCEPT !.chain = Unqueue(p)]
          /\ proc' = SetProc(p, SJ_Settled(proc[p], "resolved"))
       \/ \* mkdir, writeFile or rename fails: the link rejects
          /\ writeQueue' = [chain |-> Unqueue(p), rejected |-> TRUE, by |-> proc[p].dir]
          /\ proc' = SetProc(p, SJ_Settled([proc[p] EXCEPT !.sessionsWriteFailed = TRUE,
                                                           !.faulted = TRUE], "rejected"))
          /\ UNCHANGED <<sessionsFile, otherSessionsFile>>
    /\ UNCHANGED <<extract, tmpFiles, manualSet, textCall, labelsFile, config, event, calls, before, prior, committed,
                   observed, gl, net>>

InitQueue ==
    /\ labelsFile = FileAbsent
    /\ sessionsFile \in InitialSessionsFiles
    /\ otherSessionsFile \in {FileAbsent,
                               FileOk(Put(EmptyMap, "agent:main:main", UnlabelledEntry("s1")))}
    /\ writeQueue = [chain |-> <<>>, rejected |-> FALSE, by |-> None]
    /\ config = resolveConfig([persistenceMode |-> "session_json"])
    /\ event = HookEvent("command", "new", None, None, TRUE)
    /\ proc = [p \in Procs |-> IdleProc]
    /\ calls = 0
    /\ before = Snapshot
    /\ prior = <<>>
    /\ committed = {readLabels(labelsFile)}
    /\ observed = <<>>
    /\ textCall = IdleTextCall
    /\ manualSet = {}
    /\ tmpFiles = NoTmpFiles
    /\ extract = IdleExtract
    /\ gl = IdleLabelCall
    /\ net = IdleClient

NextQueue ==
    \/ \E p \in Procs, dir \in SessionsDirs, op \in {"by_key", "by_id"}, text \in StoreTexts :
          SJ_Call(p, dir, op, text)
    \/ \E p \in Procs : SJ_Body(p)
    \/ \E p \in Procs : SJ_Write(p)

SpecQueue ==
    InitQueue /\ [][NextQueue]_vars

\* the links queued before the link of p
AheadOf(p) ==
    {writeQueue.chain[i] : i \in {j \in 1..Len(writeQueue.chain) :
        \E k \in 1..Len(writeQueue.chain) : writeQueue.chain[k] = p /\ j < k}}

\* C13: a call on the sessions.json of one sessions directory never waits
\* for a write in progress in another directory, and never rejects because a
\* write in another directory failed.
C13_PathsIndependent ==
    \A p \in Procs :
        /\ proc[p].pc = "sj_wait" =>
              \A q \in AheadOf(p) :
                  proc[q].pc = "sj_write" => proc[q].dir = proc[p].dir
        /\ (proc[p].kind = "sessions" /\ proc[p].pc = "done"
               /\ proc[p].hOutcome = "rejected" /\ ~proc[p].faulted) =>
              writeQueue.by = proc[p].dir

\* C14: on the sessions.json of one path the queued callbacks run one at a
\* time, in call order: a callback that has read the store and not yet
\* written is the earliest pending call, is the only such callback, and the
\* file is still what it read.
C14_SerializedInCallOrder ==
    \A p \in Procs :
        proc[p].pc = "sj_write" =>
            /\ \A q \in Procs \ {p} :
                  /\ proc[q].pc # "sj_write"
                  /\ proc[q].pc = "sj_wait" => proc[q].seq > proc[p].seq
            /\ proc[p].data = SJ_Merge(readSessionsStore(StoreFile(proc[p].dir)), proc[p])

\* C14 witness: a second call on the same path waits while the first, which
\* has read the store, has not yet written.
C14_Witness ==
    \E p \in Procs : \E q \in Procs :
        /\ proc[p].pc = "sj_write"
        /\ proc[q].pc = "sj_wait"
        /\ proc[q].dir = proc[p].dir
        /\ proc[q].seq > proc[p].seq

\* C25: a sessions.json store call fails only on its own outcome: a call none
\* of whose own file operations failed resolves, whatever happened to the
\* calls queued before it.
C25_FailureIsolated ==
    \A p \in Procs :
        (proc[p].kind = "sessions" /\ proc[p].pc = "done" /\ ~proc[p].faulted) =>
            proc[p].hOutcome = "resolved"

\* the label fields of an entry are those of the record
CarriesLabel(entry, label) ==
    /\ HasField(entry, "label") /\ entry.label = label.label
    /\ HasField(entry, "label_source") /\ entry.label_source = label.label_source
    /\ HasField(entry, "label_turn") /\ entry.label_turn = label.label_turn
    /\ HasField(entry, "label_version") /\ entry.label_version = label.label_version

\* the entries of a store that name the session id
EntriesNaming(store, sessionId) ==
    {k \in DOMAIN store : "sessionId" \in DOMAIN store[k] /\ store[k].sessionId = sessionId}

\* the call of p resolves in this step
SJ_Resolves(p) ==
    /\ proc[p].kind = "sessions"
    /\ proc[p].pc # "done"
    /\ proc'[p].pc = "done"
    /\ proc'[p].hOutcome = "resolved"

C31_WitnessNoMatch ==
    \E p \in Procs :
        /\ proc[p].kind = "sessions" /\ proc[p].pc = "done"
        /\ proc[p].hOutcome = "resolved"
        /\ proc[p].op = "by_id" /\ proc[p].dir = "sessions"
        /\ calls = 1
        /\ ~proc[p].updated
        /\ sessionsFile = FileAbsent

LabelFieldNames ==
    {"label", "label_source", "label_turn", "label_version"}

\* every field of the old entry that is no label field is in the new entry
\* with the value it had
KeepsOtherFields(oldEntry, newEntry) ==
    \A f \in (DOMAIN oldEntry) \ LabelFieldNames :
        f \in DOMAIN newEntry /\ newEntry[f] = oldEntry[f]

\* the entries a call updates in the store it read
UpdatedKeys(store, rec) ==
    IF rec.op = "by_key" THEN {rec.key} ELSE EntriesNaming(store, rec.key)

\* C32: a setLabelInSessionStore or setLabelInSessionStoreBySessionId call
\* that resolves leaves every non-label field of the entries it updates
\* (sessionId, updatedAt) and every other entry of sessions.json as they were,
\* and removes no entry.
C32_LabelWritePreservesTheRest ==
    [][\A p \in Procs :
          SJ_Resolves(p) =>
              LET file    == IF proc[p].dir = "sessions" THEN sessionsFile
                             ELSE otherSessionsFile
                  file2   == IF proc[p].dir = "sessions" THEN sessionsFile'
                             ELSE otherSessionsFile'
                  old     == readSessionsStore(file)
                  new     == readSessionsStore(file2)
                  touched == UpdatedKeys(old, proc[p])
              IN  /\ \A k \in DOMAIN old : k \in DOMAIN new
                  /\ \A k \in (DOMAIN old) \ touched : new[k] = old[k]
                  /\ \A k \in (DOMAIN old) \cap touched :
                        KeepsOtherFields(old[k], new[k])
                  /\ DOMAIN new \subseteq (DOMAIN old) \cup touched]_vars

\* C32 witness: setLabelInSessionStore labelled agent:main:main, whose entry
\* still has the sessionId and updatedAt it had, next to an entry that is
\* what it was.
C32_Witness ==
    \E p \in Procs :
        /\ proc[p].kind = "sessions" /\ proc[p].pc = "done"
        /\ proc[p].hOutcome = "resolved"
        /\ proc[p].op = "by_key" /\ proc[p].dir = "sessions"
        /\ calls = 1
        /\ sessionsFile.st = "ok"
        /\ DOMAIN sessionsFile.map = {"agent:main:main", "agent:main:alt"}
        /\ CarriesLabel(sessionsFile.map["agent:main:main"], proc[p].label[1])
        /\ sessionsFile.map["agent:main:main"].sessionId = "s2"
        /\ sessionsFile.map["agent:main:main"].updatedAt = 1
        /\ sessionsFile.map["agent:main:alt"] = before.sessions.map["agent:main:alt"]

(***************************************************************************)
(* Direct calls of the label text functions: enforceMaxLength              *)
(* (src/src/enforce-length.ts), sanitize (src/src/types.ts) and            *)
(* heuristicLabel (labeler.ts)                                             *)
(***************************************************************************)
\* the most words a label passed to enforceMaxLength is composed of
MaxTextWords ==
    3

\* the most requests passed to heuristicLabel
MaxRequests ==
    2

\* The words labels are composed of: a stop-word, a short word, a word with an
\* abbreviation, a word longer than the small budgets, and the empty word,
\* which puts white space at the start, at the end, or twice in a row.
LabelWords ==
    { <<>>,
      <<"o", "f">>,
      <<"F", "i", "x">>,
      <<"d", "a", "t", "a", "b", "a", "s", "e">>,
      <<"c", "h", "e", "c", "k", "o", "u", "t">> }

LabelTexts ==
    { Join(ws, <<" ">>) : ws \in SeqsUpTo(LabelWords, MaxTextWords) }

\* provider texts, character by character: white space, a line break, a quote,
\* a bold marker, a list marker, trailing punctuation
SanitizeAlphabet ==
    {"a", " ", "\t", "\n", ".", "\"", "*", "-"}

SanitizeInputs ==
    SeqsUpTo(SanitizeAlphabet, MaxRawLen)

\* user requests: empty, tokens of at most 3 characters with and without
\* punctuation, stop-words longer than 3 characters, a token of 4 characters
\* once its punctuation is stripped, and a request with keywords
RequestTexts ==
    { <<>>,
      <<"h", "i">>,
      <<"a", ".", "b", "!", " ", "c", "-", "d">>,
      <<"f", "i", "x", " ", "i", "t", "!", "!">>,
      <<"w", "i", "t", "h", " ", "h", "e", "l", "p">>,
      <<"a", "b", "-", "c", "d">>,
      Msg1 }

RequestLists ==
    SeqsUpTo(RequestTexts, MaxRequests)

TextCall(fn, text, requests, maxChars) ==
    [pc |-> "called", fn |-> fn, text |-> text, requests |-> requests,
     maxChars |-> maxChars, out |-> <<>>]

TextCalls ==
    { TextCall("enforceMaxLength", x, <<>>, n) : x \in LabelTexts, n \in Budgets }
    \cup { TextCall("sanitize", x, <<>>, 0) : x \in SanitizeInputs }
    \cup { TextCall("heuristicLabel", <<>>, r, n) : r \in RequestLists, n \in Budgets }

\* enforceMaxLength(label, maxChars) returns
EnforceMaxLengthReturns ==
    /\ textCall.pc = "called"
    /\ textCall.fn = "enforceMaxLength"
    /\ textCall' = [textCall EXCEPT !.pc = "returned",
                                    !.out = enforceMaxLength(textCall.text, textCall.maxChars)]
    /\ UNCHANGED <<extract, tmpFiles, manualSet, labelsFile, sessionsFile, otherSessionsFile, writeQueue, config, event,
                   proc, calls, before, prior, committed, observed, gl, net>>

\* sanitize(raw) returns
SanitizeReturns ==
    /\ textCall.pc = "called"
    /\ textCall.fn = "sanitize"
    /\ textCall' = [textCall EXCEPT !.pc = "returned", !.out = sanitize(textCall.text)]
    /\ UNCHANGED <<extract, tmpFiles, manualSet, labelsFile, sessionsFile, otherSessionsFile, writeQueue, config, event,
                   proc, calls, before, prior, committed, observed, gl, net>>

\* heuristicLabel({requests, max_chars}) returns
HeuristicLabelReturns ==
    /\ textCall.pc = "called"
    /\ textCall.fn = "heuristicLabel"
    /\ textCall' = [textCall EXCEPT !.pc = "returned",
                                    !.out = heuristicLabel(textCall.requests,
                                                           textCall.maxChars)]
    /\ UNCHANGED <<extract, tmpFiles, manualSet, labelsFile, sessionsFile, otherSessionsFile, writeQueue, config, event,
                   proc, calls, before, prior, committed, observed, gl, net>>

InitText ==
    /\ textCall \in TextCalls
    /\ manualSet = {}
    /\ tmpFiles = NoTmpFiles
    /\ extract = IdleExtract
    /\ labelsFile = FileAbsent
    /\ sessionsFile = FileAbsent
    /\ otherSessionsFile = FileAbsent
    /\ writeQueue = [chain |-> <<>>, rejected |-> FALSE, by |-> None]
    /\ config = DEFAULT_CONFIG
    /\ event = HookEvent("command", "new", None, None, TRUE)
    /\ proc = [p \in Procs |-> IdleProc]
    /\ calls = 0
    /\ before = Snapshot
    /\ prior = <<>>
    /\ committed = {readLabels(labelsFile)}
    /\ observed = <<>>
    /\ gl = IdleLabelCall
    /\ net = IdleClient

NextText ==
    \/ EnforceMaxLengthReturns
    \/ SanitizeReturns
    \/ HeuristicLabelReturns

SpecText ==
    InitText /\ [][NextText]_vars

(***************************************************************************)
(* Properties of the text functions (specification SpecText)               *)
(***************************************************************************)
TextReturned(fn) ==
    textCall.pc = "returned" /\ textCall.fn = fn

\* C16: whatever the text, the result of enforceMaxLength(text, maxChars) has
\* at most maxChars characters (maxChars >= 1).
C16_LengthWithinBudget ==
    TextReturned("enforceMaxLength") => Len(textCall.out) <= textCall.maxChars

\* C16 witness: a text of several words over the budget, none of which fits
\* on its own, came back cut to exactly maxChars characters.
C16_Witness ==
    /\ TextReturned("enforceMaxLength")
    /\ Len(textCall.text) > textCall.maxChars
    /\ \E i \in 1..Len(textCall.text) : IsSpace(textCall.text[i])
    /\ Len(textCall.out) = textCall.maxChars

\* C17: a text of at most maxChars characters is returned as it is.
C17_IdentityBelowBudget ==
    (TextReturned("enforceMaxLength") /\ Len(textCall.text) <= textCall.maxChars) =>
        textCall.out = textCall.text

\* C17 witness: a text holding a stop-word and ending in white space, of
\* exactly maxChars characters, was returned as it is.
C17_Witness ==
    /\ TextReturned("enforceMaxLength")
    /\ Len(textCall.text) = textCall.maxChars
    /\ textCall.text = <<"o", "f", " ", "F", "i", "x", " ">>
    /\ textCall.out = textCall.text

EndsInWhitespace(s) ==
    Len(s) > 0 /\ IsSpace(s[Len(s)])

\* C18: neither enforceMaxLength(text, maxChars) nor sanitize(raw) returns a
\* string that ends in white space, whatever the input.
C18_NoTrailingWhitespace ==
    (TextReturned("enforceMaxLength") \/ TextReturned("sanitize")) =>
        ~EndsInWhitespace(textCall.out)

\* the part of C18 that is about sanitize alone
C18_SanitizeNoTrailingWhitespace ==
    TextReturned("sanitize") => ~EndsInWhitespace(textCall.out)

\* the part of C18 that is about enforceMaxLength on texts over the budget
C18_OverBudgetNoTrailingWhitespace ==
    (TextReturned("enforceMaxLength") /\ Len(textCall.text) > textCall.maxChars) =>
        ~EndsInWhitespace(textCall.out)

\* every token of the joined requests has at most 3 characters once its
\* non-alphanumeric characters are stripped
AllTokensShort(requests) ==
    LET toks == SplitWs(Join(requests, <<" ">>))
    IN  \A i \in 1..Len(toks) : Len(StripNonAlnum(toks[i])) <= 3

\* C19: heuristicLabel returns exactly General when there are no requests,
\* when every token is at most 3 characters long after stripping, and in
\* general when no token survives the filter, whatever maxChars is.
C19_FallbackGuarantee ==
    (/\ TextReturned("heuristicLabel")
     /\ \/ textCall.requests = <<>>
        \/ AllTokensShort(textCall.requests)
        \/ HeuristicWords(textCall.requests) = <<>>) =>
        textCall.out = FALLBACK_LABEL

\* C19 witness: requests whose tokens are all short once their punctuation is
\* stripped gave General under a budget smaller than that word.
C19_Witness ==
    /\ TextReturned("heuristicLabel")
    /\ Len(textCall.requests) = MaxRequests
    /\ \E i \in 1..Len(textCall.requests) : \E j \in 1..Len(textCall.requests[i]) : textCall.requests[i][j] = "!"
    /\ AllTokensShort(textCall.requests)
    /\ textCall.maxChars < Len(FALLBACK_LABEL)
    /\ textCall.out = FALLBACK_LABEL

\* a is b with some elements left out, the others in the order of b
RECURSIVE IsSubsequence(_, _)
IsSubsequence(a, b) ==
    IF Len(a) = 0 THEN TRUE
    ELSE IF Len(b) = 0 THEN FALSE
    ELSE IF a[1] = b[1] THEN IsSubsequence(Tail(a), Tail(b))
    ELSE IsSubsequence(a, Tail(b))

\* the tokens of the input, each replaced by its abbreviation if it has one
AbbreviatedTokens(text) ==
    LET toks == SplitWs(text)
    IN  [i \in 1..Len(toks) |-> Abbreviate(toks[i])]

\* the stage enforceMaxLength returned from
ReturnedFromStage(stages) ==
    /\ TextReturned("enforceMaxLength")
    /\ EnforceStage(textCall.text, textCall.maxChars) \in stages

RECURSIVE SumLen(_)
SumLen(words) ==
    IF Len(words) = 0 THEN 0 ELSE Len(words[1]) + SumLen(Tail(words))

\* kept is a choice of k tokens of words none of which is shorter than a token
\* left out, and no larger choice of that kind up to 4 tokens fits maxChars
KeepsLongestThatFit(kept, words, maxChars) ==
    LET k == Len(kept)
    IN  /\ k >= 1 /\ k <= Min(4, Len(words))
        /\ \E S \in SUBSET (1..Len(words)) :
              /\ Cardinality(S) = k
              /\ kept = SelectIdx(words, S, 1)
              /\ \A i \in S : \A j \in (1..Len(words)) \ S :
                    Len(words[j]) <= Len(words[i])
        /\ SumLen(kept) + (k - 1) <= maxChars
        /\ \A m \in (k + 1)..Min(4, Len(words)) :
              \A S \in SUBSET (1..Len(words)) :
                  (/\ Cardinality(S) = m
                   /\ \A i \in S : \A j \in (1..Len(words)) \ S :
                         Len(words[j]) <= Len(words[i])) =>
                      SumLen(SelectIdx(words, S, 1)) + (m - 1) > maxChars

\* the tokens the informative-word stage chooses from
StageThreeTokens(text) ==
    LET words1 == RemoveStopWords(SplitWs(text))
    IN  [i \in 1..Len(words1) |-> Abbreviate(words1[i])]

\* C36 as stated: a result of the stop-word, abbreviation or informative-word
\* stage is a subsequence of the input tokens after abbreviation
\* substitution, and the informative-word stage keeps the k longest tokens
\* for the largest k in 4..1 that fits.
C36_SubsequenceOfAbbreviatedTokens ==
    /\ ReturnedFromStage({"stops", "abbrev", "informative"}) =>
          IsSubsequence(SplitWs(textCall.out), AbbreviatedTokens(textCall.text))
    /\ ReturnedFromStage({"informative"}) =>
          KeepsLongestThatFit(SplitWs(textCall.out), StageThreeTokens(textCall.text),
                              textCall.maxChars)

\* C36 amended: a result of the stop-word stage is a subsequence of the input
\* tokens as they are; a result of the abbreviation or informative-word stage
\* is a subsequence of the input tokens after abbreviation substitution; the
\* informative-word stage keeps the k longest tokens for the largest k in
\* 4..1 that fits.
C36_OrderPreserved ==
    /\ ReturnedFromStage({"stops"}) =>
          IsSubsequence(SplitWs(textCall.out), SplitWs(textCall.text))
    /\ ReturnedFromStage({"abbrev", "informative"}) =>
          IsSubsequence(SplitWs(textCall.out), AbbreviatedTokens(textCall.text))
    /\ ReturnedFromStage({"informative"}) =>
          KeepsLongestThatFit(SplitWs(textCall.out), StageThreeTokens(textCall.text),
                              textCall.maxChars)

\* C36 witness: 'database Fix ' under a budget of 6 came back from the
\* informative-word stage as 'DB Fix': the two longest of the tokens DB, Fix
\* and the empty one, the shorter first as in the text.
C36_Witness ==
    /\ ReturnedFromStage({"informative"})
    /\ textCall.text = Join(<< <<"d", "a", "t", "a", "b", "a", "s", "e">>,
                               <<"F", "i", "x">>, <<>> >>, <<" ">>)
    /\ textCall.maxChars = 6
    /\ textCall.out = <<"D", "B", " ", "F", "i", "x">>
    /\ Len(SplitWs(textCall.out)[1]) < Len(SplitWs(textCall.out)[2])

\* C36 witness of the stop-word stage: the result holds a token that has an
\* abbreviation, as it was in the input.
C36_WitnessStopWordStage ==
    /\ ReturnedFromStage({"stops"})
    /\ textCall.out = <<"d", "a", "t", "a", "b", "a", "s", "e">>
    /\ Len(SplitWs(textCall.text)) = 2

\* the characters of s that are in the set cs, in order
PickChars(s, cs) ==
    SelectIdx(s, {i \in 1..Len(s) : s[i] \in cs}, 1)

\* what sanitize may strip from the end of a line besides punctuation
Wrapping ==
    QuoteChars \cup {"*", " ", "\t"}

\* C37: sanitize removes at most one character of . , ; : ! ? and only from
\* the end of the label (nothing but white space, quotes and bold markers
\* follows it in the line); every other such character of the first
\* non-blank line is in the result; a string made only of periods loses
\* exactly one period.
C37_AtMostOneTrailingPunctuation ==
    TextReturned("sanitize") =>
        LET line == FirstNonBlankLine(textCall.text)
            pIn  == PickChars(line, TrailingPunct)
            pOut == PickChars(textCall.out, TrailingPunct)
        IN  /\ Len(pOut) <= Len(pIn)
            /\ Len(pOut) >= Len(pIn) - 1
            /\ pOut = SubSeq(pIn, 1, Len(pOut))
            /\ Len(pOut) < Len(pIn) =>
                  \E i \in 1..Len(line) :
                      /\ line[i] \in TrailingPunct
                      /\ \A j \in (i + 1)..Len(line) : line[j] \in Wrapping
            /\ (Len(textCall.text) > 0
                  /\ \A i \in 1..Len(textCall.text) : textCall.text[i] = ".") =>
                  textCall.out = SubSeq(textCall.text, 1, Len(textCall.text) - 1)

\* C37 witness: sanitize of three periods returned two periods.
C37_Witness ==
    /\ TextReturned("sanitize")
    /\ textCall.text = <<".", ".", ".">>
    /\ textCall.out = <<".", ".">>

\* C37 witness of punctuation inside the label: 'a.a' came back as it is.
C37_WitnessInside ==
    /\ TextReturned("sanitize")
    /\ textCall.text = <<"a", ".", "a">>
    /\ textCall.out = textCall.text

\* s without one layer of symmetric surrounding quotes: the first and the
\* last character, when they are the same quote character
OneQuoteLayerOff(s) ==
    IF Len(s) >= 2 /\ s[1] \in QuoteChars /\ s[Len(s)] = s[1]
    THEN SubSeq(s, 2, Len(s) - 1)
    ELSE s

\* a text of letters and quote characters only, with a letter in it: no other
\* step of sanitize applies to it
LettersAndQuotes(s) ==
    /\ \A i \in 1..Len(s) : s[i] \in QuoteChars \cup {"a"}
    /\ \E i \in 1..Len(s) : s[i] = "a"

\* C38: sanitize strips exactly one layer of symmetric surrounding quote
\* characters: of a text of letters and quotes the result is the text without
\* its first and last character when these are the same quote, and the text
\* as it is otherwise, so that a quote on one end only and a second layer of
\* quotes stay in place.
C38_OneSymmetricLayerStripped ==
    (TextReturned("sanitize") /\ LettersAndQuotes(textCall.text)) =>
        textCall.out = OneQuoteLayerOff(textCall.text)

\* the part of C38 that holds: a letter between two equal quotes comes back
\* without them, and so does a text between a pair of bold markers
C38_SymmetricPairStripped ==
    TextReturned("sanitize") =>
        /\ (Len(textCall.text) = 3 /\ textCall.text[1] \in QuoteChars
              /\ textCall.text[3] = textCall.text[1] /\ textCall.text[2] = "a") =>
                textCall.out = <<"a">>
        /\ textCall.text = <<"*", "a", "*">> => textCall.out = <<"a">>

(***************************************************************************)
(* Readers of labels.json: readLabels and getLabel                         *)
(* (src/src/labels-store.ts)                                               *)
(***************************************************************************)
ReadKeys ==
    StoreKeys \cup {"agent:main:main"}

\* labels.json as a reader can find it: not there, there with a text that is
\* not JSON (a write in progress, a torn write), or holding a mapping of some
\* of the keys
ReadableFiles ==
    { FileAbsent, FilePartial }
    \cup UNION { { FileOk([k \in S |-> SessionLabel(f[k], "auto", 3)]) : f \in [S -> StoreTexts] } :
                    S \in SUBSET ReadKeys }

\* await readFile(labelsPath, "utf-8") and JSON.parse(raw): the parsed value,
\* or the error one of them throws
ReadAndParse(file) ==
    IF file.st = "absent" THEN [threw |-> TRUE, error |-> "ENOENT", value |-> EmptyMap]
    ELSE IF file.st = "partial" THEN [threw |-> TRUE, error |-> "SyntaxError", value |-> EmptyMap]
    ELSE [threw |-> FALSE, error |-> "none", value |-> file.map]

\* a readLabels whose catch rethrows
ReadLabelsCatchRethrows(r) ==
    [outcome |-> "rejected", value |-> EmptyMap]

\* the catch of readLabels: whatever was thrown, the promise resolves with {}
ReadLabelsCatch(r) ==
    [outcome |-> "resolved", value |-> EmptyMap]

\* how the promise of readLabels(labelsPath) settles
ReadLabelsSettles(file) ==
    LET r == ReadAndParse(file)
    IN  IF r.threw THEN ReadLabelsCatch(r)
        ELSE [outcome |-> "resolved", value |-> r.value]

\* readLabels or getLabel is called; it runs up to the await of readFile
ReadCall(p, op, key) ==
    /\ calls < MaxCalls
    /\ FreeSlot(p)
    /\ op = "readLabels" => key = None
    /\ op = "getLabel" => key # None
    /\ calls' = calls + 1
    /\ proc' = SetProc(p, [IdleProc EXCEPT !.kind = "read", !.pc = "rl_read", !.op = op,
                                           !.key = key])
    /\ UNCHANGED <<extract, tmpFiles, manualSet, textCall, otherSessionsFile, labelsFile, sessionsFile, writeQueue,
                   config, event, before, prior, committed, observed, gl, net>>

\* readLabels settles; getLabel then indexes the mapping by the session key.
\* data is the mapping readLabels gave, label the value of getLabel.
ReadSettles(p) ==
    /\ proc[p].pc = "rl_read"
    /\ LET r == ReadLabelsSettles(labelsFile)
       IN  proc' = SetProc(p, [proc[p] EXCEPT
                     !.pc = "done",
                     !.hOutcome = r.outcome,
                     !.data = r.value,
                     !.label = IF proc[p].op = "getLabel" /\ r.outcome = "resolved"
                               THEN getLabel(r.value, proc[p].key)
                               ELSE <<>>])
    /\ UNCHANGED <<extract, tmpFiles, manualSet, textCall, otherSessionsFile, labelsFile, sessionsFile, writeQueue,
                   config, event, calls, before, prior, committed, observed, gl, net>>

InitRead ==
    /\ labelsFile \in ReadableFiles
    /\ sessionsFile = FileAbsent
    /\ otherSessionsFile = FileAbsent
    /\ writeQueue = [chain |-> <<>>, rejected |-> FALSE, by |-> None]
    /\ config = resolveConfig([persistenceMode |-> "labels_json"])
    /\ event = HookEvent("command", "new", None, None, TRUE)
    /\ proc = [p \in Procs |-> IdleProc]
    /\ calls = 0
    /\ before = Snapshot
    /\ prior = <<>>
    /\ committed = {readLabels(labelsFile)}
    /\ observed = <<>>
    /\ textCall = IdleTextCall
    /\ manualSet = {}
    /\ tmpFiles = NoTmpFiles
    /\ extract = IdleExtract
    /\ gl = IdleLabelCall
    /\ net = IdleClient

NextRead ==
    \E p \in Procs :
        \/ \E key \in ReadKeys : ReadCall(p, "getLabel", key)
        \/ ReadCall(p, "readLabels", None)
        \/ ReadSettles(p)

SpecRead ==
    InitRead /\ [][NextRead]_vars

(***************************************************************************)
(* Properties of the readers (specification SpecRead)                      *)
(***************************************************************************)
ReadDone(p) ==
    proc[p].kind = "read" /\ proc[p].pc = "done"

\* C20: a readLabels or getLabel call never rejects; over a labels.json that
\* is absent or does not parse, readLabels gives the empty mapping and
\* getLabel gives no label, whatever the key.
C20_ReadersNeverError ==
    \A p \in Procs :
        ReadDone(p) =>
            /\ proc[p].hOutcome = "resolved"
            /\ labelsFile.st \in {"absent", "partial"} =>
                  /\ proc[p].data = EmptyMap
                  /\ proc[p].label = <<>>

\* C20 witness: over a labels.json that does not parse, one call of
\* readLabels and one of getLabel have both resolved.
C20_Witness ==
    \E p \in Procs : \E q \in Procs :
        /\ labelsFile.st = "partial"
        /\ ReadDone(p) /\ proc[p].op = "readLabels" /\ proc[p].data = EmptyMap
        /\ ReadDone(q) /\ proc[q].op = "getLabel" /\ proc[q].label = <<>>
        /\ proc[p].hOutcome = "resolved"
        /\ proc[q].hOutcome = "resolved"

(***************************************************************************)
(* Overlapping hook invocations for one ending session, and an external    *)
(* actor that labels the session by hand (relabel=false)                   *)
(***************************************************************************)
\* the session the racing invocations are about
RaceEvent ==
    HookEvent("command", "new", "agent:main:main", "s1", TRUE)

ManualLabelRecord ==
    SessionLabel(TxtMine, "manual", 1)

\* the gateway delivers the event again while an invocation is running
RaceInvoke(p) ==
    HookStart(p)

\* The external actor stores a manual label for the session in labels.json
\* under the session id, in one step (a complete file replaces the old one).
ManualLabelInLabelsJson ==
    /\ <<"labels", event.sessionId>> \notin manualSet
    /\ labelsFile.st # "partial"
    /\ LET labels == Put(readLabels(labelsFile), event.sessionId, ManualLabelRecord)
       IN  /\ labelsFile' = FileOk(labels)
           /\ committed' = committed \cup {labels}
    /\ manualSet' = manualSet \cup {<<"labels", event.sessionId>>}
    /\ UNCHANGED <<extract, tmpFiles, textCall, otherSessionsFile, sessionsFile, writeQueue, config, event,
                   proc, calls, before, prior, observed, gl, net>>

\* The external actor stores a manual label in the session's entry of
\* sessions.json, in one step.
ManualLabelInSessionsJson ==
    /\ <<"sessions", event.sessionKey>> \notin manualSet
    /\ sessionsFile.st = "ok"
    /\ event.sessionKey \in DOMAIN sessionsFile.map
    /\ sessionsFile' = FileOk(Put(sessionsFile.map, event.sessionKey,
                                  WithLabel(sessionsFile.map[event.sessionKey],
                                            ManualLabelRecord)))
    /\ manualSet' = manualSet \cup {<<"sessions", event.sessionKey>>}
    /\ UNCHANGED <<extract, tmpFiles, textCall, otherSessionsFile, labelsFile, writeQueue, config, event,
                   proc, calls, before, prior, committed, observed, gl, net>>

InitRace ==
    /\ labelsFile = FileAbsent
    /\ sessionsFile \in { FileAbsent,
                          FileOk(Put(EmptyMap, "agent:main:main", UnlabelledEntry("s1"))) }
    /\ otherSessionsFile = FileAbsent
    /\ writeQueue = [chain |-> <<>>, rejected |-> FALSE, by |-> None]
    /\ config \in { resolveConfig([relabel |-> FALSE]),
                    resolveConfig([relabel |-> FALSE, persistenceMode |-> "labels_json"]) }
    /\ event = RaceEvent
    /\ proc = [p \in Procs |-> IdleProc]
    /\ calls = 0
    /\ before = Snapshot
    /\ prior = <<>>
    /\ committed = {readLabels(labelsFile)}
    /\ observed = <<>>
    /\ textCall = IdleTextCall
    /\ manualSet = {}
    /\ tmpFiles = NoTmpFiles
    /\ extract = IdleExtract
    /\ gl = IdleLabelCall
    /\ net = IdleClient

NextRace ==
    \/ \E p \in Procs :
        \/ RaceInvoke(p)
        \/ ResolveTranscriptPath(p)
        \/ CheckExistingByKey(p)
        \/ CheckExistingById(p)
        \/ ExtractMessages(p)
        \/ \E outcome \in HookLlmOutcomes : GenerateAndPersist(p, outcome)
        \/ SL_Read(p)
        \/ SL_Open(p)
        \/ SL_Data(p)
        \/ Q_Body(p)
        \/ Q_Write(p)
    \/ ManualLabelInLabelsJson
    \/ ManualLabelInSessionsJson

SpecRace ==
    InitRace /\ [][NextRace]_vars

(***************************************************************************)
(* Properties under overlap (specification SpecRace)                       *)
(***************************************************************************)
\* the entry the external actor labelled is still its manual label
StillManual(m) ==
    IF m[1] = "labels"
    THEN labelsFile.st = "ok" =>
            /\ m[2] \in DOMAIN labelsFile.map
            /\ labelsFile.map[m[2]] = ManualLabelRecord
    ELSE sessionsFile.st = "ok" =>
            /\ m[2] \in DOMAIN sessionsFile.map
            /\ getLabelFromSessionStore(sessionsFile.map, m[2]) = <<ManualLabelRecord>>

\* C24: with relabel=false, an entry the external actor has given a manual
\* label keeps it, at whatever point of a running invocation the actor wrote
\* it: whenever the store is readable the entry is the manual label.
C24_ManualIsTerminal ==
    ~config.relabel => \A m \in manualSet : StillManual(m)

\* the part of C24 that is about the entry of sessions.json
C24_ManualInSessionsJsonIsTerminal ==
    ~config.relabel =>
        \A m \in manualSet : m[1] = "sessions" => StillManual(m)

\* C26: with relabel=false and no external writer, overlapping invocations
\* for one ending session write its label at most once: a label text that
\* labels.json has held for the session is the text it holds whenever the
\* file is readable afterwards.
C26_LabelWrittenAtMostOnce ==
    (~config.relabel /\ manualSet = {}) =>
        \A c \in committed :
            (event.sessionId \in DOMAIN c /\ labelsFile.st = "ok") =>
                /\ event.sessionId \in DOMAIN labelsFile.map
                /\ labelsFile.map[event.sessionId].label = c[event.sessionId].label

(***************************************************************************)
(* writeSessionsStore step by step, writers of several processes and a     *)
(* reader (src/src/session-json-store.ts lines 23-28)                      *)
(***************************************************************************)
\* the store a writer hands to writeSessionsStore
StoreToWrite(text) ==
    Put(EmptyMap, "agent:main:main", SessionEntry("s1", text, "auto", 3))

\* writeSessionsStore(path, data) is called
WS_Call(p, text) ==
    /\ calls < MaxCalls
    /\ FreeSlot(p)
    /\ calls' = calls + 1
    /\ proc' = SetProc(p, [IdleProc EXCEPT !.kind = "writer", !.pc = "ws_mkdir",
                                           !.seq = calls + 1,
                                           !.data = StoreToWrite(text)])
    /\ UNCHANGED <<extract, tmpFiles, manualSet, textCall, labelsFile, sessionsFile, otherSessionsFile,
                   writeQueue, config, event, before, prior, committed, observed, gl, net>>

\* an await of writeSessionsStore rejects
WS_Rejects(p) ==
    proc' = SetProc(p, [proc[p] EXCEPT !.pc = "done", !.hOutcome = "rejected",
                                       !.faulted = TRUE])

\* await mkdir(dirname(path), { recursive: true })
WS_Mkdir(p) ==
    /\ proc[p].pc = "ws_mkdir"
    /\ \/ proc' = SetProc(p, [proc[p] EXCEPT !.pc = "ws_open"])
       \/ WS_Rejects(p)
    /\ UNCHANGED <<extract, tmpFiles, manualSet, textCall, labelsFile, sessionsFile, otherSessionsFile,
                   writeQueue, config, event, calls, before, prior, committed, observed,
                   gl, net>>

\* writeFile(tmpPath, ...) opens the temp file with flag 'w': created or truncated
WS_Open(p) ==
    /\ proc[p].pc = "ws_open"
    /\ \/ /\ tmpFiles' = [tmpFiles EXCEPT ![TmpName(proc[p].seq)] = FilePartial]
          /\ proc' = SetProc(p, [proc[p] EXCEPT !.pc = "ws_data"])
       \/ /\ WS_Rejects(p)
          /\ UNCHANGED tmpFiles
    /\ UNCHANGED <<extract, manualSet, textCall, labelsFile, sessionsFile, otherSessionsFile,
                   writeQueue, config, event, calls, before, prior, committed, observed,
                   gl, net>>

\* writeFile writes JSON.stringify(data, null, 2) + newline and closes
WS_Data(p) ==
    /\ proc[p].pc = "ws_data"
    /\ \/ /\ tmpFiles' = [tmpFiles EXCEPT ![TmpName(proc[p].seq)] = FileOk(proc[p].data)]
          /\ proc' = SetProc(p, [proc[p] EXCEPT !.pc = "ws_rename"])
       \/ \* the write fails: what was written of the temp file stays behind
          /\ WS_Rejects(p)
          /\ UNCHANGED tmpFiles
    /\ UNCHANGED <<extract, manualSet, textCall, labelsFile, sessionsFile, otherSessionsFile,
                   writeQueue, config, event, calls, before, prior, committed, observed,
                   gl, net>>

\* await rename(tmpPath, path): the name sessions.json now denotes the temp file
WS_Rename(p) ==
    /\ proc[p].pc = "ws_rename"
    /\ \/ /\ tmpFiles[TmpName(proc[p].seq)].st # "absent"
          /\ sessionsFile' = tmpFiles[TmpName(proc[p].seq)]
          /\ tmpFiles' = [tmpFiles EXCEPT ![TmpName(proc[p].seq)] = FileAbsent]
          /\ proc' = SetProc(p, [proc[p] EXCEPT !.pc = "done", !.hOutcome = "resolved"])
       \/ \* rename fails (no such temp file, or the file system refuses)
          /\ WS_Rejects(p)
          /\ UNCHANGED <<sessionsFile, tmpFiles>>
    /\ UNCHANGED <<extract, manualSet, textCall, labelsFile, otherSessionsFile, writeQueue, config,
                   event, calls, before, prior, committed, observed, gl, net>>

\* a reader opens sessions.json and reads what the name denotes at that moment
ReadSessionsFile ==
    /\ observed' = <<sessionsFile>>
    /\ UNCHANGED <<extract, tmpFiles, manualSet, textCall, labelsFile, sessionsFile, otherSessionsFile,
                   writeQueue, config, event, proc, calls, before, prior, committed, gl, net>>

InitAtomic ==
    /\ labelsFile = FileAbsent
    /\ sessionsFile \in InitialSessionsFiles
    /\ otherSessionsFile = FileAbsent
    /\ writeQueue = [chain |-> <<>>, rejected |-> FALSE, by |-> None]
    /\ config = resolveConfig([persistenceMode |-> "session_json"])
    /\ event = HookEvent("command", "new", None, None, TRUE)
    /\ proc = [p \in Procs |-> IdleProc]
    /\ calls = 0
    /\ before = Snapshot
    /\ prior = <<>>
    /\ committed = {readLabels(labelsFile)}
    /\ observed = <<>>
    /\ textCall = IdleTextCall
    /\ manualSet = {}
    /\ tmpFiles = NoTmpFiles
    /\ extract = IdleExtract
    /\ gl = IdleLabelCall
    /\ net = IdleClient

NextAtomic ==
    \/ \E p \in Procs, text \in StoreTexts : WS_Call(p, text)
    \/ \E p \in Procs : WS_Mkdir(p)
    \/ \E p \in Procs : WS_Open(p)
    \/ \E p \in Procs : WS_Data(p)
    \/ \E p \in Procs : WS_Rename(p)
    \/ ReadSessionsFile

SpecAtomic ==
    InitAtomic /\ [][NextAtomic]_vars

\* the file is the one of the start or the full content of a write
CompleteContent(file) ==
    \/ file = before.sessions
    \/ \E text \in StoreTexts : file = FileOk(StoreToWrite(text))

\* C33: sessions.json is replaced atomically.  At every step the name
\* sessions.json denotes the content of the start or the full content of one
\* write, a read returns such a content, the content changes only in the
\* rename of a writer and then to that writer's full data, and a
\* writeSessionsStore that rejects leaves sessions.json as it was.
C33_SessionsJsonReplacedAtomically ==
    [][/\ CompleteContent(sessionsFile')
       /\ Len(observed') = 1 => CompleteContent(observed'[1])
       /\ sessionsFile' # sessionsFile =>
             \E p \in Procs :
                 /\ proc[p].pc = "ws_rename"
                 /\ proc'[p].hOutcome = "resolved"
                 /\ sessionsFile' = FileOk(proc[p].data)
       /\ \A p \in Procs :
             (proc[p].kind = "writer" /\ proc[p].pc # "done"
                /\ proc'[p].hOutcome = "rejected") =>
                 sessionsFile' = sessionsFile]_vars

\* C33 witness: a write has replaced the sessions.json of the start by its
\* full content while the temp file of another write is half written.
C33_Witness ==
    \E p \in Procs : \E q \in Procs :
        /\ proc[p].kind = "writer" /\ proc[p].pc = "done"
        /\ proc[p].hOutcome = "resolved"
        /\ before.sessions.st = "ok"
        /\ sessionsFile = FileOk(proc[p].data)
        /\ sessionsFile # before.sessions
        /\ proc[q].pc = "ws_data"
        /\ tmpFiles[TmpName(proc[q].seq)] = FilePartial

\* C33 witness of a failure before the rename: the write rejected, its half
\* written temp file is left behind and sessions.json is the file of the start.
C33_WitnessFailure ==
    \E p \in Procs :
        /\ proc[p].kind = "writer" /\ proc[p].pc = "done"
        /\ proc[p].hOutcome = "rejected"
        /\ tmpFiles[TmpName(proc[p].seq)] = FilePartial
        /\ before.sessions.st = "ok"
        /\ sessionsFile = before.sessions
        /\ Len(observed) = 1 /\ observed[1] = before.sessions

(***************************************************************************)
(* extractUserMessagesFromFile line by line, and the slice of labelSession *)
(* (src/src/transcript.ts lines 55-93, handler.ts lines 128-154)           *)
(***************************************************************************)
MaxLines ==
    3

MaxLimit ==
    2

\* the lines a transcript can hold: user messages, one of them empty, an
\* assistant message, a custom_message of role user, an unparseable line
LineKinds ==
    { Line("message", "user", Msg1), Line("message", "user", Msg4),
      Line("message", "user", <<>>), Line("message", "assistant", Reply),
      Line("custom_message", "user", Msg4), BadLine }

TranscriptSamples ==
    UNION { [1..n -> LineKinds] : n \in 0..MaxLines }

\* for await (const line of rl): the loop takes the next line, or ends
RL_Next ==
    /\ extract.pc = "loop"
    /\ \/ IF extract.taken = Len(extract.lines)
          THEN extract' = [extract EXCEPT !.pc = "return"]
          ELSE extract' = [extract EXCEPT !.pc = "body", !.taken = @ + 1]
       \/ \* the stream emits an error: the for-await throws
          extract' = [extract EXCEPT !.pc = "done"]
    /\ UNCHANGED <<tmpFiles, manualSet, textCall, labelsFile, sessionsFile, otherSessionsFile,
                   writeQueue, config, event, proc, calls, before, prior, committed,
                   observed, gl, net>>

\* the loop body: break at the limit, else processLineForUserMessage
RL_Body ==
    /\ extract.pc = "body"
    /\ IF Len(extract.messages) >= extract.limit
       THEN extract' = [extract EXCEPT !.pc = "return"]
       ELSE extract' = [extract EXCEPT
                !.pc = "loop",
                !.parsed = @ + 1,
                !.messages = processLineForUserMessage(extract.lines[extract.taken], @)]
    /\ UNCHANGED <<tmpFiles, manualSet, textCall, labelsFile, sessionsFile, otherSessionsFile,
                   writeQueue, config, event, proc, calls, before, prior, committed,
                   observed, gl, net>>

\* extractUserMessagesFromFile returns; labelSession tests the threshold and
\* hands userMessages.slice(0, maxMessagesForLabel) to generateLabel
RL_Return ==
    /\ extract.pc = "return"
    /\ IF BelowThreshold(extract.messages, config)
       THEN extract' = [extract EXCEPT !.pc = "done"]
       ELSE extract' = [extract EXCEPT
                !.pc = "done", !.fed = TRUE,
                !.requests = Slice0(extract.messages, config.maxMessagesForLabel)]
    /\ UNCHANGED <<tmpFiles, manualSet, textCall, labelsFile, sessionsFile, otherSessionsFile,
                   writeQueue, config, event, proc, calls, before, prior, committed,
                   observed, gl, net>>

InitExtract ==
    /\ labelsFile = FileAbsent
    /\ sessionsFile = FileAbsent
    /\ otherSessionsFile = FileAbsent
    /\ writeQueue = [chain |-> <<>>, rejected |-> FALSE, by |-> None]
    /\ config \in {resolveConfig([maxMessagesForLabel |-> n, triggerAfterRequests |-> t]) :
                      n \in 1..MaxLimit, t \in 1..MaxLimit}
    /\ event = HookEvent("command", "new", None, None, TRUE)
    /\ proc = [p \in Procs |-> IdleProc]
    /\ calls = 0
    /\ before = Snapshot
    /\ prior = <<>>
    /\ committed = {readLabels(labelsFile)}
    /\ observed = <<>>
    /\ textCall = IdleTextCall
    /\ manualSet = {}
    /\ tmpFiles = NoTmpFiles
    /\ extract \in {[IdleExtract EXCEPT !.pc = "loop", !.lines = ls,
                                        !.limit = config.maxMessagesForLabel,
                                        !.threshold = config.triggerAfterRequests] :
                       ls \in TranscriptSamples}
    /\ gl = IdleLabelCall
    /\ net = IdleClient

NextExtract ==
    \/ RL_Next
    \/ RL_Body
    \/ RL_Return

SpecExtract ==
    InitExtract /\ [][NextExtract]_vars

\* an entry of type 'message' and role 'user' with non-empty text
IsUserMessage(line) ==
    line.type = "message" /\ line.role = "user" /\ Len(line.content) > 0

\* the texts of the user messages among the first i lines, in transcript order
RECURSIVE UserTexts(_, _)
UserTexts(lines, i) ==
    IF i = 0 THEN <<>>
    ELSE IF IsUserMessage(lines[i])
         THEN Append(UserTexts(lines, i - 1), lines[i].content)
         ELSE UserTexts(lines, i - 1)

\* the line at which the limit is reached: the first line with which the
\* transcript holds limit user messages; the last line when it holds fewer
LimitLine(lines, limit) ==
    LET reached == {i \in 1..Len(lines) : Len(UserTexts(lines, i)) >= limit}
    IN  IF reached = {} THEN Len(lines)
        ELSE CHOOSE i \in reached : \A j \in reached : i <= j

\* the requests are the first min(n, maxMessagesForLabel) user messages
FirstUserMessagesFed ==
    extract.fed =>
        LET all == UserTexts(extract.lines, Len(extract.lines))
        IN  /\ extract.requests = SubSeq(all, 1, Min(Len(all), extract.limit))
            /\ extract.messages = ExtractFrom(extract.lines, 1, extract.limit, <<>>)

\* C34 as stated: the requests fed to synthesis are the first
\* min(n, maxMessagesForLabel) user messages in transcript order, and no
\* line past the one at which the limit is reached is taken from the reader.
C34_NotReadPastLimitLine ==
    /\ FirstUserMessagesFed
    /\ extract.taken <= LimitLine(extract.lines, extract.limit)

\* C34 amended: the requests fed to synthesis are the first
\* min(n, maxMessagesForLabel) user messages in transcript order; no line past
\* the one at which the limit is reached is parsed, and the loop takes at
\* most one such line from the reader before it breaks.
C34_NotParsedPastLimitLine ==
    /\ FirstUserMessagesFed
    /\ extract.parsed <= LimitLine(extract.lines, extract.limit)
    /\ extract.taken <= LimitLine(extract.lines, extract.limit) + 1

\* C34 witness: the transcript holds more user messages than
\* maxMessagesForLabel, with other lines between them; the first
\* maxMessagesForLabel of them were fed and the lines after the limit were
\* not parsed.
C34_Witness ==
    /\ extract.fed
    /\ extract.limit = 1
    /\ Len(extract.lines) = 3
    /\ ~IsUserMessage(extract.lines[1])
    /\ IsUserMessage(extract.lines[2])
    /\ IsUserMessage(extract.lines[3])
    /\ extract.lines[3].content # extract.lines[2].content
    /\ extract.requests = <<extract.lines[2].content>>
    /\ extract.parsed = 2

====
